---- MODULE Spec2Model ----
(***************************************************************************)
(* Qubic portfolio tracker: the API client (fetchWithRetry and the read    *)
(* operations), the storage manager's snapshot cache and wallet history,   *)
(* and the application's wallet selection, refresh and auto-refresh logic. *)
(*                                                                         *)
(* The JavaScript runtime is single threaded: a step of the model is one   *)
(* macrotask (a user event, a timer firing, a network response) together   *)
(* with all the microtask continuations it runs.  Handlers are operators   *)
(* from a state record to a state record, so that a handler that calls     *)
(* another one is the composition of both.                                 *)
(***************************************************************************)
EXTENDS Integers, Sequences, FiniteSets, Bags, TLC

\* ---------------------------------------------------------------- bounds
\* fetchWithRetry activations the model can hold at once
MaxCalls == 7
\* loadAllData activations the model can hold at once
MaxLoads == 2
\* interval timers the model can hold at once
MaxTimers == 2
\* stand-alone loadTransactions activations in flight at once
MaxTxLoads == 1
\* times the clock advances in one behaviour
MaxTicks == 1
\* activations whose attempts fail in one behaviour
MaxFailing == 1
\* user events in one behaviour of the application
MaxEvents == 1
\* auto-refresh timer firings in one behaviour
MaxFirings == 1
\* direct uses of the API client or the snapshot cache
MaxApiCalls == 2
\* entries of a list in an upstream body
MaxEntries == 2
\* tick batches in a transfers body
MaxBatches == 2
\* largest limit handed to getTransactions
MaxLimit == 3
\* the longest asset list given to the analytics
MaxAssets == 4
\* the longest freely composed transaction list given to the analytics
MaxTx == 2
\* the length of the long transaction histories given to the analytics
LongLen == 25
\* the longest wallet list of an imported document
MaxImported == 11
\* the largest number of retry attempts the API client is configured with
MaxAttempts == 4
\* the number of user events while wallets and tabs are switched
MaxSwitches == 3
\* the number of wallet selections while the refreshes are followed to their end
MaxChoices == 1
\* the number of clock advances while the timers are watched
MaxElapses == 5
\* the time a response takes to arrive, in ms
Latency == 1000

\* ------------------------------------------------------ program constants
cacheTimeout == 30000
retryAttempts == 3
retryDelay == 1000
CACHE_DURATION == 5 * 60 * 1000
MAX_WALLETS == 10
MinWalletLength == 50
DefaultRefreshInterval == 30000
DefaultLimit == 100
TicksPerDay == 8640
SampleEvery == 5
PointLimit == 20
RecentLimit == 20
TrendWindow == 10
TopCounterparties == 5

\* ------------------------------------------------------------ identifiers
\* "QA" and "QB" stand for two 60-character identities, "abc" is malformed
null == "<null>"
WalletA == "QA"
WalletB == "QB"
Malformed == "abc"
Empty == ""
ValidWallets == {WalletA, WalletB}
Length(w) == IF w \in ValidWallets THEN 60 ELSE Len(w)

\* what the user can type in the wallet input: a text with optional blanks around
InputTexts == [pad : BOOLEAN, text : ValidWallets \cup {Malformed, Empty}]
\* what ?wallet= can carry (null when the parameter is absent)
UrlParams == {null, Empty, Malformed, WalletA}
\* wallets a direct caller hands to a read operation
ApiWallets == {WalletA, Malformed, Empty}
TimeSteps == {cacheTimeout, CACHE_DURATION}
\* the clock advance and the failure the application's behaviours are explored with
LongSteps == {CACHE_DURATION}
Tabs == {"portfolio", "transactions", "analytics"}
ErrorKinds == {"transport", "http"}
AppErrorKinds == {"http"}

\* the identifiers the code's `!wallet` tests reject
Falsy(w) == w = null \/ w = Empty

Min(S) == CHOOSE x \in S : \A y \in S : x <= y

\* An operation is called by value: an argument written x0 in the heading is
\* computed once, and the body works on its value x, as in {... : x \in {x0}}.
The(S) == CHOOSE x \in S : TRUE

\* -------------------------------------------------------------- JS values
\* A value is a record tagged with its type.  A string is a sequence of pieces
\* of text; a numeral is written one character a piece.  Numbers are integers.
Undefined == [t |-> "undefined"]
JNull == [t |-> "null"]
NaN == [t |-> "NaN"]
Num(n) == [t |-> "number", v |-> n]
Bool(b) == [t |-> "boolean", v |-> b]
Str(pieces) == [t |-> "string", v |-> pieces]
Arr(elements) == [t |-> "array", v |-> elements]
Obj(fields) == [t |-> "object", v |-> fields]
EmptyObj == Obj(<< >>)
\* an identifier as a string value
Text(w) == Str(IF w = "" THEN << >> ELSE <<w>>)

Nullish(x0) ==
    The({(
    x.t \in {"undefined", "null"}
    ) : x \in {x0}})

\* ToBoolean
Truthy(x0) ==
    The({(
    CASE x.t \in {"undefined", "null", "NaN"} -> FALSE
      [] x.t = "number" -> x.v # 0
      [] x.t = "string" -> x.v # << >>
      [] x.t = "boolean" -> x.v
      [] OTHER -> TRUE
    ) : x \in {x0}})

\* x.f for x neither null nor undefined: only objects carry the fields read here
Get(x0, f0) ==
    The({(
    IF x.t = "object" /\ f \in DOMAIN x.v THEN x.v[f] ELSE Undefined
    ) : x \in {x0}, f \in {f0}})
\* x?.f
OptGet(x0, f0) ==
    The({(
    IF Nullish(x) THEN Undefined ELSE Get(x, f)
    ) : x \in {x0}, f \in {f0}})
\* x || d
OrElse(x0, d0) ==
    The({(
    IF Truthy(x) THEN x ELSE d
    ) : x \in {x0}, d \in {d0}})

DigitChars == <<"0", "1", "2", "3", "4", "5", "6", "7", "8", "9">>
IsDigit(c) == \E d \in 1..10 : DigitChars[d] = c
DigitValue(c) == (CHOOSE d \in 1..10 : DigitChars[d] = c) - 1

\* Number.prototype.toString for an integer
RECURSIVE Digits(_)
Digits(n) ==
    IF n < 0 THEN <<"-">> \o Digits(-n)
    ELSE IF n < 10 THEN <<DigitChars[n + 1]>>
    ELSE Digits(n \div 10) \o <<DigitChars[(n % 10) + 1]>>

\* ToString of the values that reach a template or parseInt
JSToString(x0) ==
    The({(
    CASE x.t = "number" -> Digits(x.v)
      [] x.t = "string" -> x.v
      [] x.t = "boolean" -> IF x.v THEN <<"true">> ELSE <<"false">>
      [] x.t = "array" -> <<"[array]">>
      [] x.t = "object" -> <<"[object Object]">>
      [] OTHER -> <<x.t>>
    ) : x \in {x0}})

RECURSIVE SkipBlanks(_)
SkipBlanks(cs0) ==
    The({(
    IF cs # << >> /\ Head(cs) = " " THEN SkipBlanks(Tail(cs)) ELSE cs
    ) : cs \in {cs0}})

RECURSIVE LeadingDigits(_, _)
LeadingDigits(cs0, acc0) ==
    The({(
    IF cs # << >> /\ IsDigit(Head(cs))
    THEN LeadingDigits(Tail(cs), [n |-> acc.n * 10 + DigitValue(Head(cs)), seen |-> TRUE])
    ELSE acc
    ) : cs \in {cs0}, acc \in {acc0}})

\* parseInt(x): blanks, an optional sign, then the longest run of decimal digits
ParseInt(x0) ==
    The({(
    LET cs == SkipBlanks(JSToString(x))
        signed == cs # << >> /\ Head(cs) \in {"+", "-"}
        body == IF signed THEN Tail(cs) ELSE cs
        r == LeadingDigits(body, [n |-> 0, seen |-> FALSE])
    IN IF ~r.seen THEN NaN
       ELSE IF signed /\ Head(cs) = "-" THEN Num(-r.n) ELSE Num(r.n)
    ) : x \in {x0}})

\* what a read operation makes of a body: a value, or a TypeError caught and rethrown
Returned(v) == [threw |-> FALSE, value |-> v]
Threw == [threw |-> TRUE]

\* ----------------------------------------------------------- JS numbers
\* A number that need not be an integer is the double m * 2^e, with the natural
\* number m held as a sequence of limbs, least significant first, none leading.
\* Every operation gives the exact result rounded to 53 bits, ties to even.
\* An intermediate result is computed once: it is the v of {... : v \in {it}}.
LimbBits == 15
Base == 2 ^ LimbBits
Precision == 53
MinOf(a, b) == IF a <= b THEN a ELSE b
MaxOf(a, b) == IF a >= b THEN a ELSE b

BTrim(x) ==
    The({SubSeq(v, 1, Cardinality({k \in 1..Len(v) : \E j \in k..Len(v) : v[j] # 0})) :
            v \in {x}})

RECURSIVE BFromInt(_)
BFromInt(n) == IF n = 0 THEN << >> ELSE <<n % Base>> \o BFromInt(n \div Base)

RECURSIVE BToIntFrom(_, _)
BToIntFrom(x, k) == IF k > Len(x) THEN 0 ELSE x[k] + Base * BToIntFrom(x, k + 1)
BToInt(x) == The({BToIntFrom(v, 1) : v \in {x}})

Limb(x, k) == IF k <= Len(x) THEN x[k] ELSE 0

\* the limbs of x + y + c from the k-th on
RECURSIVE BAddC(_, _, _, _)
BAddC(x, y, k, c) ==
    IF k > Len(x) /\ k > Len(y) THEN (IF c = 0 THEN << >> ELSE <<c>>)
    ELSE The({<<t % Base>> \o BAddC(x, y, k + 1, t \div Base) :
                 t \in {Limb(x, k) + Limb(y, k) + c}})
BAdd(x, y) == The({BAddC(a, b, 1, 0) : a \in {x}, b \in {y}})

\* the limbs of x - y - b from the k-th on, for x >= y + b
RECURSIVE BSubB(_, _, _, _)
BSubB(x, y, k, b) ==
    IF k > Len(x) THEN << >>
    ELSE The({<<t % Base>> \o BSubB(x, y, k + 1, IF t < 0 THEN 1 ELSE 0) :
                 t \in {Limb(x, k) - Limb(y, k) - b}})
BSub(x, y) == The({BTrim(BSubB(a, b, 1, 0)) : a \in {x}, b \in {y}})

RECURSIVE BCmpFrom(_, _, _)
BCmpFrom(x, y, k) ==
    IF k = 0 THEN 0
    ELSE IF x[k] # y[k] THEN (IF x[k] < y[k] THEN -1 ELSE 1)
    ELSE BCmpFrom(x, y, k - 1)
BCmp(x, y) ==
    The({IF Len(a) # Len(b) THEN (IF Len(a) < Len(b) THEN -1 ELSE 1)
         ELSE BCmpFrom(a, b, Len(a)) : a \in {x}, b \in {y}})

\* the limbs of x * n + c from the k-th on
RECURSIVE BMulSmallC(_, _, _, _)
BMulSmallC(x, n, k, c) ==
    IF k > Len(x) THEN (IF c = 0 THEN << >> ELSE <<c>>)
    ELSE The({<<t % Base>> \o BMulSmallC(x, n, k + 1, t \div Base) : t \in {x[k] * n + c}})
BMulSmall(x, n) == The({BTrim(BMulSmallC(a, j, 1, 0)) : a \in {x}, j \in {n}})

\* x times the limbs of y from the k-th on
RECURSIVE BMulFrom(_, _, _)
BMulFrom(x, y, k) ==
    IF k > Len(y) THEN << >>
    ELSE BAdd(BMulSmall(x, y[k]), <<0>> \o BMulFrom(x, y, k + 1))
BMul(x, y) == The({BTrim(BMulFrom(a, b, 1)) : a \in {x}, b \in {y}})

\* x * 2^n
BShl(x, n) ==
    The({IF a = << >> THEN << >>
         ELSE [k \in 1..(j \div LimbBits) |-> 0] \o BMulSmall(a, 2 ^ (j % LimbBits)) :
            a \in {x}, j \in {n}})

\* x \div 2^n, and whether bits were lost
BShr(x, n) ==
    The({LET q == j \div LimbBits
             r == j % LimbBits
         IN [q |-> BTrim([k \in 1..MaxOf(0, Len(a) - q) |->
                             (a[q + k] \div 2 ^ r)
                                 + (Limb(a, q + k + 1) % 2 ^ r) * 2 ^ (LimbBits - r)]),
             lost |-> \/ \E k \in 1..Len(a) : k <= q /\ a[k] # 0
                      \/ Limb(a, q + 1) % 2 ^ r # 0] :
            a \in {x}, j \in {n}})

RECURSIVE SmallBitLen(_)
SmallBitLen(n) == IF n = 0 THEN 0 ELSE 1 + SmallBitLen(n \div 2)
BitLen(x) ==
    The({IF a = << >> THEN 0 ELSE LimbBits * (Len(a) - 1) + SmallBitLen(a[Len(a)]) :
            a \in {x}})
BOdd(x) == Limb(x, 1) % 2 = 1

\* the largest digit d <= est with d * y <= r
RECURSIVE BFit(_, _, _)
BFit(r, y, est) == IF BCmp(BMulSmall(y, est), r) > 0 THEN BFit(r, y, est - 1) ELSE est

\* long division, limb k of x down to limb 1 still to bring down
RECURSIVE BDivStep(_, _, _, _, _)
BDivStep(x, y, k, q, r) ==
    IF k = 0 THEN [q |-> BTrim(q), r |-> r]
    ELSE The({The({The({BDivStep(x, y, k - 1, q1, r2) :
                           q1 \in {<<d>> \o q}, r2 \in {BSub(r1, BMulSmall(y, d))}}) :
                      d \in {BFit(r1, y, MinOf(Base - 1,
                                (Limb(r1, Len(y) + 1) * Base + Limb(r1, Len(y))) \div y[Len(y)]))}}) :
                 r1 \in {BTrim(<<x[k]>> \o r)}})
BDivMod(x, y) == The({BDivStep(a, b, Len(a), << >>, << >>) : a \in {x}, b \in {y}})

\* m * 2^e (and a little more, if inexact) rounded to the nearest double
RoundToDouble(m, e, inexact) ==
    The({IF len <= Precision THEN [m |-> mv, e |-> e]
         ELSE The({The({[m |-> IF BOdd(upper.q) /\ (upper.lost \/ inexact \/ BOdd(q))
                               THEN BAdd(q, <<1>>) ELSE q,
                         e |-> e + (len - Precision)] :
                           q \in {BShr(upper.q, 1).q}}) :
                      upper \in {BShr(mv, len - Precision - 1)}}) :
            mv \in {m}, len \in {BitLen(m)}})

Double(n) == The({[m |-> BFromInt(v), e |-> 0] : v \in {n}})
\* the significand of x when written with exponent e <= x.e
Scaled(x, e) == BShl(x.m, x.e - e)

FCmp(x, y) ==
    The({BCmp(Scaled(a, MinOf(a.e, b.e)), Scaled(b, MinOf(a.e, b.e))) : a \in {x}, b \in {y}})
FAdd(x, y) ==
    The({RoundToDouble(BAdd(Scaled(a, MinOf(a.e, b.e)), Scaled(b, MinOf(a.e, b.e))),
                       MinOf(a.e, b.e), FALSE) : a \in {x}, b \in {y}})
\* x - y for x >= y
FSub(x, y) ==
    The({RoundToDouble(BSub(Scaled(a, MinOf(a.e, b.e)), Scaled(b, MinOf(a.e, b.e))),
                       MinOf(a.e, b.e), FALSE) : a \in {x}, b \in {y}})
FMul(x, y) == The({RoundToDouble(BMul(a.m, b.m), a.e + b.e, FALSE) : a \in {x}, b \in {y}})
\* x / y for y # 0
FDiv(x, y) ==
    The({The({The({RoundToDouble(d.q, a.e - b.e - n, d.r # << >>) :
                      d \in {BDivMod(BShl(a.m, n + fill), BShl(b.m, fill))}}) :
                 n \in {MaxOf(0, Precision + 3 + BitLen(b.m) - BitLen(a.m))},
                 fill \in {(LimbBits - (BitLen(b.m) % LimbBits)) % LimbBits}}) :
            a \in {x}, b \in {y}})

\* Math.round(x) for x >= 0: floor(x + 0.5)
MathRound(x) ==
    The({IF a.e >= 0 THEN BToInt(BShl(a.m, a.e))
         ELSE (BToInt(BShr(a.m, (-a.e) - 1).q) + 1) \div 2 : a \in {x}})

\* ------------------------------------------------------- upstream service
BalanceUrl(w) == <<"/v1/balances/", w>>
AssetsUrl(w) == <<"/v1/assets/", w, "/owned">>
TransfersUrl(w) == <<"/v2/identities/", w, "/transfers">>
StatusUrl == <<"/v1/status">>

ServerBalance(w) == IF w = WalletA THEN 100 ELSE IF w = WalletB THEN 200 ELSE 0
OwnedAsset(name, units) ==
    Obj([data |-> Obj([issuedAsset |-> Obj([name |-> Text(name)]), numberOfUnits |-> units])])
ServerAssets(w) ==
    IF w = WalletA THEN << OwnedAsset("QX", Num(5)) >>
    ELSE IF w = WalletB THEN << OwnedAsset("CFB", Num(7)) >>
    ELSE << >>
Transfer(id, sourceId, destId, amount) ==
    Obj([transaction |-> Obj([id |-> Text(id), sourceId |-> Text(sourceId),
                              destId |-> Text(destId), amount |-> amount,
                              moneyFlew |-> Bool(TRUE)])])
TickBatch(tickNumber, transfers) ==
    Obj([tickNumber |-> Num(tickNumber), transactions |-> Arr(transfers)])
ServerTransfers(w) ==
    IF w \in ValidWallets THEN << TickBatch(10, << Transfer("t1", "S", w, Num(3)) >>) >>
    ELSE << >>

\* the JSON body the service answers a URL with
Payload(url) ==
    IF url = StatusUrl
    THEN Obj([lastProcessedTick |-> Obj([tickNumber |-> Num(1000), timestamp |-> Text("t1000")]),
              epoch |-> Num(7)])
    ELSE IF url[1] = "/v1/balances/"
    THEN Obj([balance |-> Obj([balance |-> Num(ServerBalance(url[2]))])])
    ELSE IF url[1] = "/v1/assets/" THEN Obj([ownedAssets |-> Arr(ServerAssets(url[2]))])
    ELSE Obj([transactions |-> Arr(ServerTransfers(url[2]))])

\* ------------------------------------------------------------------ state
VARIABLES
    booted,           \* the constructor has run init()
    currentWallet, portfolioData, transactions, assets, refreshInterval, isLoading,
    activeTab,        \* the tab pane carrying the class "active"
    wallets,          \* localStorage: wallet history, most recent first
    snapCache,        \* localStorage: snapshot cache, wallet -> [data, timestamp]
    settings,         \* localStorage: settings
    timers,           \* the browser's active interval timers, id -> timer
    cache,            \* QubicAPI.cache, cacheKey -> [data, timestamp]
    calls,            \* fetchWithRetry activations in flight, a bag
    loads,            \* loadAllData activations, slot -> activation
    now,              \* Date.now()
    ticks,            \* number of clock advances so far
    events,           \* number of user events (or direct API uses) so far
    firings,          \* number of timer firings so far
    failing,          \* number of activations that had a failed attempt so far
    event,            \* what the last step did
    analytics,        \* the AdvancedAnalytics instance: portfolioData, transactions, assets
    answer            \* the last call made of a read operation or of the analytics

appVars == <<booted, currentWallet, portfolioData, transactions, assets, refreshInterval,
             isLoading, activeTab, wallets, snapCache, settings, timers, cache, calls,
             loads, now, ticks, events, firings, failing, event>>
vars == <<appVars, analytics, answer>>

NoData == [null |-> TRUE]
NoCall == [null |-> TRUE]
NoError == [attempt |-> 0, kind |-> "none"]
IdleLoad == [state |-> "idle"]
Ops == {"balance", "assets", "status"}
Pending == [done |-> FALSE]
Failed == [done |-> TRUE, failed |-> TRUE]
Direct == [kind |-> "direct"]

NoLog == [dropped |-> FALSE, started |-> FALSE, fired |-> FALSE, stale |-> FALSE,
          published |-> FALSE, ended |-> "none", before |-> NoData, txFailed |-> FALSE,
          fetch |-> "none", call |-> NoCall, value |-> NoData, rejectedAtOnce |-> FALSE,
          lookups |-> {}]

\* the state as one record; log collects what the step being taken does
S == [currentWallet |-> currentWallet, portfolioData |-> portfolioData,
      transactions |-> transactions, assets |-> assets,
      refreshInterval |-> refreshInterval, isLoading |-> isLoading,
      activeTab |-> activeTab, wallets |-> wallets, snapCache |-> snapCache,
      settings |-> settings, timers |-> timers, cache |-> cache, calls |-> calls,
      loads |-> loads, now |-> now, retryAttempts |-> retryAttempts, log |-> NoLog]

\* what a step of the application is remembered by
AppLog(log) == [NoLog EXCEPT !.dropped = log.dropped, !.started = log.started,
                             !.fired = log.fired, !.stale = log.stale,
                             !.published = log.published, !.ended = log.ended,
                             !.before = log.before, !.txFailed = log.txFailed]

Commit(t0) ==
    \E t \in {t0} :
    /\ currentWallet' = t.currentWallet
    /\ portfolioData' = t.portfolioData
    /\ transactions' = t.transactions
    /\ assets' = t.assets
    /\ refreshInterval' = t.refreshInterval
    /\ isLoading' = t.isLoading
    /\ activeTab' = t.activeTab
    /\ wallets' = t.wallets
    /\ snapCache' = t.snapCache
    /\ settings' = t.settings
    /\ timers' = t.timers
    /\ cache' = t.cache
    /\ calls' = t.calls
    /\ loads' = t.loads
    /\ now' = t.now
    /\ event' = t.log
    /\ UNCHANGED <<analytics, answer>>

CommitApp(t) == Commit([t EXCEPT !.log = AppLog(@)])

RECURSIVE SumOver(_, _)
SumOver(bag, R) ==
    IF R = {} THEN 0 ELSE LET r == CHOOSE x \in R : TRUE IN bag[r] + SumOver(bag, R \ {r})
Without(bag, r) == bag (-) SetToBag({r})
With(bag, r) == bag (+) SetToBag({r})

InFlight(s) == BagToSet(s.calls)
ActiveLoads(s) == {f \in 1..MaxLoads : s.loads[f] # IdleLoad}
FreeLoads(s) == {f \in 1..MaxLoads : s.loads[f] = IdleLoad}
TxLoads(s) == SumOver(s.calls, {r \in InFlight(s) : r.owner.kind = "tx" /\ r.owner.parent = 0})

\* ------------------------------------------------------------- storage.js
\* getCachedPortfolioData with `<=` for `<` on line 133: an entry of exactly
\* CACHE_DURATION is still served
getCachedPortfolioDataInclusive(s0, wallet0) ==
    The({(
    LET c == s.snapCache
        had == wallet \in DOMAIN c
        age == IF had THEN s.now - c[wallet].timestamp ELSE 0
        fresh == had /\ age <= CACHE_DURATION
        s1 == IF had /\ ~fresh
              THEN [s EXCEPT !.snapCache = [w \in (DOMAIN c) \ {wallet} |-> c[w]]]
              ELSE s
        data == IF fresh THEN c[wallet].data ELSE NoData
        look == [cache |-> "snapshot", key |-> wallet, had |-> had, age |-> age,
                 stored |-> IF had THEN c[wallet].data ELSE NoData, returned |-> data]
    IN [s |-> [s1 EXCEPT !.log.lookups = @ \cup {look}], data |-> data]
    ) : s \in {s0}, wallet \in {wallet0}})

getCachedPortfolioData(s0, wallet0) ==
    The({(
    LET c == s.snapCache
        had == wallet \in DOMAIN c
        age == IF had THEN s.now - c[wallet].timestamp ELSE 0
        fresh == had /\ age < CACHE_DURATION
        s1 == IF had /\ ~fresh
              THEN [s EXCEPT !.snapCache = [w \in (DOMAIN c) \ {wallet} |-> c[w]]]
              ELSE s
        data == IF fresh THEN c[wallet].data ELSE NoData
        look == [cache |-> "snapshot", key |-> wallet, had |-> had, age |-> age,
                 stored |-> IF had THEN c[wallet].data ELSE NoData, returned |-> data]
    IN [s |-> [s1 EXCEPT !.log.lookups = @ \cup {look}], data |-> data]
    ) : s \in {s0}, wallet \in {wallet0}})

cachePortfolioData(s0, wallet0, data0) ==
    The({(
    IF Falsy(wallet) \/ data = NoData THEN s
    ELSE [s EXCEPT !.snapCache = (wallet :> [data |-> data, timestamp |-> s.now]) @@ @]
    ) : s \in {s0}, wallet \in {wallet0}, data \in {data0}})

\* wallet history entries are kept by address; their date stamps are not modelled
storageAddWallet(s0, address0) ==
    The({(
    IF Falsy(address) THEN s
    ELSE LET filtered == SelectSeq(s.wallets, LAMBDA w : w # address)
             added == <<address>> \o filtered
             trimmed == SubSeq(added, 1, IF Len(added) < MAX_WALLETS THEN Len(added)
                                          ELSE MAX_WALLETS)
         IN [s EXCEPT !.wallets = trimmed]
    ) : s \in {s0}, address \in {address0}})

storageRemoveWallet(s0, address0) ==
    The({(
    [s EXCEPT !.wallets = SelectSeq(@, LAMBDA w : w # address)]
    ) : s \in {s0}, address \in {address0}})

clearWallets(s0) ==
    The({(
    [s EXCEPT !.wallets = << >>]
    ) : s \in {s0}})

\* getSettings with nothing stored: the application never saves settings
DefaultSettings == [autoRefresh |-> TRUE, refreshInterval |-> DefaultRefreshInterval]

\* clearAll removes every key of the prefix: history, snapshot cache, settings
clearAll(s0) ==
    The({(
    [s EXCEPT !.wallets = << >>, !.snapCache = << >>, !.settings = DefaultSettings]
    ) : s \in {s0}})

\* an exported document: text that JSON.parse accepts or not, with the
\* wallets (absent, an array, or something else) and the settings (or none)
NotJson == [parses |-> FALSE]
Json(walletList, storedSettings) ==
    [parses |-> TRUE, wallets |-> walletList, settings |-> storedSettings]
Absent == [kind |-> "absent"]
NotArray == [kind |-> "text"]
ArrayOf(xs) == [kind |-> "array", items |-> xs]

importData(s0, jsonString0) ==
    The({(
    IF ~jsonString.parses THEN s
    ELSE LET data == jsonString
             s1 == IF data.wallets.kind = "array"
                   THEN [s EXCEPT !.wallets = data.wallets.items]
                   ELSE s
         IN IF data.settings # NoData THEN [s1 EXCEPT !.settings = data.settings] ELSE s1
    ) : s \in {s0}, jsonString \in {jsonString0}})

\* ---------------------------------------------------------------- QubicAPI
NoOptions == "{}"
CacheKey(url, options) == <<url, options>>

fetchWithRetry(s0, url0, owner0) ==
    The({(
    LET cacheKey == CacheKey(url, NoOptions)
        had == cacheKey \in DOMAIN s.cache
        age == IF had THEN s.now - s.cache[cacheKey].timestamp ELSE 0
        hit == had /\ age < cacheTimeout
        data == IF hit THEN s.cache[cacheKey].data ELSE NoData
        look == [cache |-> "request", key |-> cacheKey, had |-> had, age |-> age,
                 stored |-> IF had THEN s.cache[cacheKey].data ELSE NoData, returned |-> data]
        s1 == [s EXCEPT !.log.lookups = @ \cup {look}]
    IN IF hit
       THEN [s |-> s1, settled |-> TRUE, data |-> data]
       ELSE [s |-> [s1 EXCEPT !.calls = With(@,
                       [url |-> url, i |-> 0, lastError |-> NoError, owner |-> owner,
                        attempts |-> 1, delays |-> << >>])],
             settled |-> FALSE, data |-> NoData]
    ) : s \in {s0}, url \in {url0}, owner \in {owner0}})

\* what each read operation makes of the body fetchWithRetry returned
BalanceOf(data0) ==
    The({(
    IF Nullish(data) THEN Threw
    ELSE Returned(OrElse(OptGet(Get(data, "balance"), "balance"), Num(0)))
    ) : data \in {data0}})

RECURSIVE CollectAssets(_, _, _)
CollectAssets(owned0, k0, acc0) ==
    The({(
    IF k > Len(owned) THEN Returned(acc)
    ELSE IF Nullish(owned[k]) THEN Threw
    ELSE LET assetData == OrElse(Get(owned[k], "data"), EmptyObj)
             issuedAsset == OrElse(Get(assetData, "issuedAsset"), EmptyObj)
             name == Get(issuedAsset, "name")
             amount == ParseInt(OrElse(Get(assetData, "numberOfUnits"), Num(0)))
         IN CollectAssets(owned, k + 1,
                          IF Truthy(name) THEN Append(acc, [name |-> name, amount |-> amount])
                          ELSE acc)
    ) : owned \in {owned0}, k \in {k0}, acc \in {acc0}})

\* AssetsOf without the test of line 99: a holding for every upstream entry
AssetsOfKeepingUnnamed(data0) ==
    The({(
    IF Nullish(data) THEN Threw
    ELSE LET owned == Get(data, "ownedAssets")
             assetData(k) == OrElse(OptGet(owned.v[k], "data"), EmptyObj)
         IN IF Truthy(owned) /\ owned.t = "array"
            THEN Returned([k \in 1..Len(owned.v) |->
                     [name |-> Get(OrElse(Get(assetData(k), "issuedAsset"), EmptyObj), "name"),
                      amount |-> ParseInt(OrElse(Get(assetData(k), "numberOfUnits"), Num(0)))]])
            ELSE Returned(<< >>)
    ) : data \in {data0}})

AssetsOf(data0) ==
    The({(
    IF Nullish(data) THEN Threw
    ELSE LET owned == Get(data, "ownedAssets")
         IN IF Truthy(owned) /\ owned.t = "array" THEN CollectAssets(owned.v, 1, << >>)
            ELSE Returned(<< >>)
    ) : data \in {data0}})

\* what `for (... of x)` runs over: the elements of an array, the characters of a string
Iterable(x) == x.t \in {"array", "string"}
Elements(x0) ==
    The({(
    IF x.t = "array" THEN x.v ELSE [k \in 1..Len(x.v) |-> Str(<<x.v[k]>>)]
    ) : x \in {x0}})

RECURSIVE CollectTx(_, _, _, _, _, _)
CollectTx(batches0, b0, k0, acc0, wallet0, limit0) ==
    The({(
    IF b > Len(batches) THEN Returned(acc)
    ELSE IF Nullish(batches[b]) THEN Threw
    ELSE LET tickNumber == OrElse(Get(batches[b], "tickNumber"), Num(0))
             tickTransactions == OrElse(Get(batches[b], "transactions"), Arr(<< >>))
         IN IF ~Iterable(tickTransactions) THEN Threw
            ELSE IF k > Len(Elements(tickTransactions))
            THEN CollectTx(batches, b + 1, 1, acc, wallet, limit)
            ELSE IF Nullish(Elements(tickTransactions)[k]) THEN Threw
            ELSE LET tx == OrElse(Get(Elements(tickTransactions)[k], "transaction"), EmptyObj)
                     generated == Str(<<"tx_">> \o JSToString(tickNumber) \o <<"_">>
                                      \o Digits(Len(acc)))
                     acc1 == Append(acc,
                                 [id |-> OrElse(Get(tx, "id"), generated),
                                  sourceId |-> OrElse(Get(tx, "sourceId"), Text("Unknown")),
                                  destId |-> OrElse(Get(tx, "destId"), Text("Unknown")),
                                  amount |-> ParseInt(OrElse(Get(tx, "amount"), Num(0))),
                                  tick |-> tickNumber,
                                  type |-> IF Get(tx, "destId") = Text(wallet) THEN "incoming"
                                           ELSE "outgoing",
                                  moneyFlew |-> Get(tx, "moneyFlew") # Bool(FALSE)])
                 IN IF Len(acc1) >= limit THEN Returned(acc1)
                    ELSE CollectTx(batches, b, k + 1, acc1, wallet, limit)
    ) : batches \in {batches0}, b \in {b0}, k \in {k0}, acc \in {acc0}, wallet \in {wallet0}, limit \in {limit0}})

TransactionsOf(data0, wallet0, limit0) ==
    The({(
    IF Nullish(data) THEN Threw
    ELSE LET batches == Get(data, "transactions")
         IN IF Truthy(batches) /\ batches.t = "array"
            THEN CollectTx(batches.v, 1, 1, << >>, wallet, limit)
            ELSE Returned(<< >>)
    ) : data \in {data0}, wallet \in {wallet0}, limit \in {limit0}})

\* new Date().toISOString(), the time of the call
IsoNow == Text("<now>")

NetworkStatusOf(data0) ==
    The({(
    IF Nullish(data) THEN Threw
    ELSE Returned([currentTick |-> OrElse(OptGet(Get(data, "lastProcessedTick"), "tickNumber"),
                                          Num(0)),
                   epoch |-> OrElse(Get(data, "epoch"), Num(0)),
                   lastUpdate |-> OrElse(OptGet(Get(data, "lastProcessedTick"), "timestamp"),
                                         IsoNow)])
    ) : data \in {data0}})

\* a read operation: rejected at once for a falsy wallet, else fetchWithRetry; a
\* body at hand is worked on at once, and a TypeError in that rejects the read
RejectedAtOnce(s0) ==
    The({(
    [s |-> [s EXCEPT !.log.rejectedAtOnce = TRUE], settled |-> TRUE, rejected |-> TRUE,
     value |-> NoData]
    ) : s \in {s0}})

Read(r0, made0) ==
    The({(
    [s |-> r.s, settled |-> r.settled, rejected |-> r.settled /\ made.threw,
     value |-> IF r.settled /\ ~made.threw THEN made.value ELSE NoData]
    ) : r \in {r0}, made \in {made0}})

getBalance(s0, wallet0, owner0) ==
    The({(
    IF Falsy(wallet) THEN RejectedAtOnce(s)
    ELSE LET r == fetchWithRetry(s, BalanceUrl(wallet), owner)
         IN Read(r, IF r.settled THEN BalanceOf(r.data) ELSE Threw)
    ) : s \in {s0}, wallet \in {wallet0}, owner \in {owner0}})

getAssets(s0, wallet0, owner0) ==
    The({(
    IF Falsy(wallet) THEN RejectedAtOnce(s)
    ELSE LET r == fetchWithRetry(s, AssetsUrl(wallet), owner)
         IN Read(r, IF r.settled THEN AssetsOf(r.data) ELSE Threw)
    ) : s \in {s0}, wallet \in {wallet0}, owner \in {owner0}})

getTransactions(s0, wallet0, owner0) ==
    The({(
    IF Falsy(wallet) THEN RejectedAtOnce(s)
    ELSE LET r == fetchWithRetry(s, TransfersUrl(wallet), owner)
         IN Read(r, IF r.settled THEN TransactionsOf(r.data, wallet, DefaultLimit) ELSE Threw)
    ) : s \in {s0}, wallet \in {wallet0}, owner \in {owner0}})

getNetworkStatus(s0, owner0) ==
    The({(
    LET r == fetchWithRetry(s, StatusUrl, owner)
    IN Read(r, IF r.settled THEN NetworkStatusOf(r.data) ELSE Threw)
    ) : s \in {s0}, owner \in {owner0}})

\* ------------------------------------------------------ QubicPortfolioApp
stopAutoRefresh(s0) ==
    The({(
    IF s.refreshInterval # 0
    THEN [s EXCEPT !.timers = [t \in (DOMAIN @) \ {s.refreshInterval} |-> @[t]],
                   !.refreshInterval = 0]
    ELSE s
    ) : s \in {s0}})

\* setInterval hands out the lowest identifier not in use
NewTimerId(s) == Min((1..(MaxTimers + 1)) \ DOMAIN s.timers)

\* startAutoRefresh without the stopAutoRefresh of line 634
startAutoRefreshKeepingOld(s0) ==
    The({(
    IF ~s.settings.autoRefresh THEN s
    ELSE LET id == NewTimerId(s)
         IN [s EXCEPT !.timers = (id :> [interval |-> s.settings.refreshInterval,
                                         due |-> s.now + s.settings.refreshInterval,
                                         startedFor |-> s.currentWallet]) @@ @,
                      !.refreshInterval = id]
    ) : s \in {s0}})

startAutoRefresh(s0) ==
    The({(
    IF ~s.settings.autoRefresh THEN s
    ELSE LET s1 == stopAutoRefresh(s)
             id == NewTimerId(s1)
         IN [s1 EXCEPT !.timers = (id :> [interval |-> s.settings.refreshInterval,
                                          due |-> s.now + s.settings.refreshInterval,
                                          startedFor |-> s.currentWallet]) @@ @,
                       !.refreshInterval = id]
    ) : s \in {s0}})

\* the rest of setCurrentWallet once its `await this.loadAllData()` returns
afterLoad(s0, awaited0) ==
    The({(
    IF awaited THEN startAutoRefresh(s) ELSE s
    ) : s \in {s0}, awaited \in {awaited0}})

\* finishLoad without line 315: the guard is not released
finishLoadKeepingGuard(s0, f0, how0) ==
    The({(
    afterLoad([s EXCEPT !.loads[f] = IdleLoad,
                        !.log.ended = how,
                        !.log.before = s.loads[f].before],
              s.loads[f].awaited)
    ) : s \in {s0}, f \in {f0}, how \in {how0}})
\* finally-block of loadAllData, then whoever awaited it
finishLoad(s0, f0, how0) ==
    The({(
    afterLoad([s EXCEPT !.isLoading = FALSE,
                        !.loads[f] = IdleLoad,
                        !.log.ended = how,
                        !.log.before = s.loads[f].before],
              s.loads[f].awaited)
    ) : s \in {s0}, f \in {f0}, how \in {how0}})

Orphaned(r0, f0) ==
    The({(
    IF r.owner = [kind |-> "load", load |-> f] THEN [r EXCEPT !.owner = [kind |-> "orphan"]]
    ELSE r
    ) : r \in {r0}, f \in {f0}})

\* failLoad with a catch-block that also drops the cached snapshot of the wallet
failLoadDroppingSnapshot(s0, f0) ==
    The({(
    finishLoad([s EXCEPT !.calls =
                    [t \in {Orphaned(r, f) : r \in BagToSet(@)} |->
                        SumOver(@, {r \in BagToSet(@) : Orphaned(r, f) = t})],
                         !.snapCache = [w \in (DOMAIN @) \ {s.loads[f].before.wallet} |-> @[w]]],
               f, "failed")
    ) : s \in {s0}, f \in {f0}})

\* Promise.all rejected: catch-block of loadAllData; the reads still in flight go on alone
failLoad(s0, f0) ==
    The({(
    finishLoad([s EXCEPT !.calls =
                    [t \in {Orphaned(r, f) : r \in BagToSet(@)} |->
                        SumOver(@, {r \in BagToSet(@) : Orphaned(r, f) = t})]],
               f, "failed")
    ) : s \in {s0}, f \in {f0}})

\* loadTransactions is over: resume the loadAllData that awaited it, if any
txDone(s0, parent0) ==
    The({(
    IF parent = 0 THEN s ELSE finishLoad(s, parent, "ok")
    ) : s \in {s0}, parent \in {parent0}})

loadTransactions(s0, parent0) ==
    The({(
    IF Falsy(s.currentWallet) THEN txDone(s, parent)
    ELSE LET r == getTransactions(s, s.currentWallet,
                                  [kind |-> "tx", parent |-> parent, wallet |-> s.currentWallet])
         IN IF r.settled /\ r.rejected THEN txDone([r.s EXCEPT !.log.txFailed = TRUE], parent)
            ELSE IF r.settled THEN txDone([r.s EXCEPT !.transactions = r.value], parent)
            ELSE r.s
    ) : s \in {s0}, parent \in {parent0}})

\* loadAllData after Promise.all resolved: assemble, publish, cache, transactions
publish(s0, f0) ==
    The({(
    LET res == s.loads[f].res
        pd == [balance |-> res["balance"].value, assets |-> res["assets"].value,
               networkStatus |-> res["status"].value, wallet |-> s.currentWallet]
        s1 == [s EXCEPT !.portfolioData = pd, !.assets = pd.assets, !.log.published = TRUE]
        s2 == cachePortfolioData(s1, s.currentWallet, pd)
    IN IF s.activeTab = "transactions"
       THEN loadTransactions([s2 EXCEPT !.loads[f].state = "tx"], f)
       ELSE finishLoad(s2, f, "ok")
    ) : s \in {s0}, f \in {f0}})

\* Promise.all: reject as soon as one read has, go on once all three have resolved
joinLoad(s0, f0) ==
    The({(
    IF \E o \in Ops : s.loads[f].res[o] = Failed THEN failLoad(s, f)
    ELSE IF \A o \in Ops : s.loads[f].res[o].done THEN publish(s, f)
    ELSE s
    ) : s \in {s0}, f \in {f0}})

settle(s0, f0, op0, r0) ==
    The({(
    IF r.settled /\ r.rejected THEN [s EXCEPT !.loads[f].res[op] = Failed]
    ELSE IF r.settled THEN [s EXCEPT !.loads[f].res[op] = [done |-> TRUE, value |-> r.value]]
    ELSE s
    ) : s \in {s0}, f \in {f0}, op \in {op0}, r \in {r0}})

SnapEntry(s, w) == IF w \in DOMAIN s.snapCache THEN s.snapCache[w] ELSE NoData

\* loadAllData without the isLoading test of line 268
loadAllDataUnguarded(s0, awaited0) ==
    The({(
    IF Falsy(s.currentWallet)
    THEN afterLoad([s EXCEPT !.log.dropped = TRUE], awaited)
    ELSE LET w == s.currentWallet
             f == Min(FreeLoads(s))
             before == [portfolioData |-> s.portfolioData, assets |-> s.assets,
                        entry |-> SnapEntry(s, w), now |-> s.now, wallet |-> w]
             s1 == [s EXCEPT !.isLoading = TRUE, !.log.started = TRUE]
             lk == getCachedPortfolioData(s1, w)
             s2 == [lk.s EXCEPT !.loads[f] = [state |-> "join", res |-> [o \in Ops |-> Pending],
                                              awaited |-> awaited, before |-> before]]
             b == getBalance(s2, w, [kind |-> "load", load |-> f])
             s3 == settle(b.s, f, "balance", b)
             a == getAssets(s3, w, [kind |-> "load", load |-> f])
             s4 == settle(a.s, f, "assets", a)
             n == getNetworkStatus(s4, [kind |-> "load", load |-> f])
             s5 == settle(n.s, f, "status", n)
         IN joinLoad(s5, f)
    ) : s \in {s0}, awaited \in {awaited0}})

loadAllData(s0, awaited0) ==
    The({(
    IF Falsy(s.currentWallet) \/ s.isLoading
    THEN afterLoad([s EXCEPT !.log.dropped = TRUE], awaited)
    ELSE LET w == s.currentWallet
             f == Min(FreeLoads(s))
             before == [portfolioData |-> s.portfolioData, assets |-> s.assets,
                        entry |-> SnapEntry(s, w), now |-> s.now, wallet |-> w]
             s1 == [s EXCEPT !.isLoading = TRUE, !.log.started = TRUE]
             lk == getCachedPortfolioData(s1, w)
             s2 == [lk.s EXCEPT !.loads[f] = [state |-> "join", res |-> [o \in Ops |-> Pending],
                                              awaited |-> awaited, before |-> before]]
             b == getBalance(s2, w, [kind |-> "load", load |-> f])
             s3 == settle(b.s, f, "balance", b)
             a == getAssets(s3, w, [kind |-> "load", load |-> f])
             s4 == settle(a.s, f, "assets", a)
             n == getNetworkStatus(s4, [kind |-> "load", load |-> f])
             s5 == settle(n.s, f, "status", n)
         IN joinLoad(s5, f)
    ) : s \in {s0}, awaited \in {awaited0}})

\* only the lastAccessed stamp of the history entry changes
updateWalletAccess(s, wallet) == s

setCurrentWallet(s0, wallet0) ==
    The({(
    IF s.currentWallet = wallet THEN s
    ELSE loadAllData(updateWalletAccess([s EXCEPT !.currentWallet = wallet], wallet), TRUE)
    ) : s \in {s0}, wallet \in {wallet0}})

clearCurrentWallet(s0) ==
    The({(
    stopAutoRefresh([s EXCEPT !.currentWallet = null])
    ) : s \in {s0}})

\* String.prototype.trim on an input made of a text and optional surrounding blanks
Trim(input) == input.text

addWallet(s0, input0) ==
    The({(
    LET wallet == Trim(input)
    IN IF wallet = Empty THEN s
       ELSE IF Length(wallet) < MinWalletLength THEN s
       ELSE setCurrentWallet(storageAddWallet(s, wallet), wallet)
    ) : s \in {s0}, input \in {input0}})

removeWallet(s0, wallet0) ==
    The({(
    LET s1 == storageRemoveWallet(s, wallet)
    IN IF s.currentWallet = wallet THEN clearCurrentWallet(s1) ELSE s1
    ) : s \in {s0}, wallet \in {wallet0}})

clearWalletHistory(s0) ==
    The({(
    clearCurrentWallet(clearWallets(s))
    ) : s \in {s0}})

switchTab(s0, tabName0) ==
    The({(
    LET s1 == [s EXCEPT !.activeTab = tabName]
    IN IF tabName \in {"transactions", "analytics"} /\ Len(s.transactions) = 0
       THEN loadTransactions(s1, 0)
       ELSE s1
    ) : s \in {s0}, tabName \in {tabName0}})

checkUrlParams(s0, wallet0) ==
    The({(
    IF Falsy(wallet) THEN s ELSE setCurrentWallet(s, wallet)
    ) : s \in {s0}, wallet \in {wallet0}})

\* -------------------------------------------------- a settled read resumes
ReadValue(call0, data0) ==
    The({(
    IF call.url = StatusUrl THEN NetworkStatusOf(data)
    ELSE IF call.url[1] = "/v1/balances/" THEN BalanceOf(data)
    ELSE AssetsOf(data)
    ) : call \in {call0}, data \in {data0}})

ReadOp(call0) ==
    The({(
    IF call.url = StatusUrl THEN "status"
    ELSE IF call.url[1] = "/v1/balances/" THEN "balance" ELSE "assets"
    ) : call \in {call0}})

rejected(s0, call0) ==
    The({(
    IF call.owner.kind = "load" THEN failLoad(s, call.owner.load)
    ELSE IF call.owner.kind = "tx"
    THEN txDone([s EXCEPT !.log.txFailed = TRUE], call.owner.parent)
    ELSE s
    ) : s \in {s0}, call \in {call0}})

\* resolved with the asset list put on display as soon as the assets read returns
resolvedShowingAssetsEarly(s0, call0, data0) ==
    The({(
    IF call.owner.kind = "load"
    THEN LET made == ReadValue(call, data)
         IN IF made.threw THEN rejected(s, call)
            ELSE joinLoad([s EXCEPT !.loads[call.owner.load].res[ReadOp(call)] =
                                       [done |-> TRUE, value |-> made.value],
                                    !.assets = IF ReadOp(call) = "assets" THEN made.value ELSE @],
                          call.owner.load)
    ELSE IF call.owner.kind = "tx"
    THEN LET made == TransactionsOf(data, call.owner.wallet, DefaultLimit)
         IN IF made.threw THEN rejected(s, call)
            ELSE txDone([s EXCEPT !.transactions = made.value], call.owner.parent)
    ELSE s
    ) : s \in {s0}, call \in {call0}, data \in {data0}})

\* the read operation goes on with the body; a TypeError in that rejects it
resolved(s0, call0, data0) ==
    The({(
    IF call.owner.kind = "load"
    THEN LET made == ReadValue(call, data)
         IN IF made.threw THEN rejected(s, call)
            ELSE joinLoad([s EXCEPT !.loads[call.owner.load].res[ReadOp(call)] =
                                       [done |-> TRUE, value |-> made.value]],
                          call.owner.load)
    ELSE IF call.owner.kind = "tx"
    THEN LET made == TransactionsOf(data, call.owner.wallet, DefaultLimit)
         IN IF made.threw THEN rejected(s, call)
            ELSE txDone([s EXCEPT !.transactions = made.value], call.owner.parent)
    ELSE s
    ) : s \in {s0}, call \in {call0}, data \in {data0}})

\* attemptSucceeded without lines 48-51: the response is returned but not cached
attemptSucceededUncached(s0, call0) ==
    The({(
    LET data == Payload(call.url)
        s1 == [s EXCEPT !.calls = Without(@, call),
                        !.log.fetch = "ok", !.log.call = call, !.log.value = data]
    IN resolved(s1, call, data)
    ) : s \in {s0}, call \in {call0}})

\* fetchWithRetry: the response of attempt i arrived and was a 2xx with a JSON body
attemptSucceeded(s0, call0) ==
    The({(
    LET data == Payload(call.url)
        s1 == [s EXCEPT !.cache = (CacheKey(call.url, NoOptions) :>
                                      [data |-> data, timestamp |-> s.now]) @@ @,
                        !.calls = Without(@, call),
                        !.log.fetch = "ok", !.log.call = call, !.log.value = data]
    IN resolved(s1, call, data)
    ) : s \in {s0}, call \in {call0}})

\* the delay after the failure of attempt i (counted from 0), were it retryDelay * i
BackoffFromZero(i) == retryDelay * i
\* the delay after the failure of attempt i (counted from 0): retryDelay * (i + 1)
Backoff(i) == retryDelay * (i + 1)

\* attemptFailed with the error of the last attempt stored under the request key
attemptFailedCachingError(s0, call0, kind0) ==
    The({(
    LET failed == [call EXCEPT !.lastError = [attempt |-> call.i + 1, kind |-> kind]]
        s1 == [s EXCEPT !.calls = Without(@, call)]
    IN IF call.i < s.retryAttempts - 1
       THEN [s1 EXCEPT !.calls = With(@, [failed EXCEPT !.i = @ + 1, !.attempts = @ + 1,
                                                        !.delays = Append(@, Backoff(call.i))]),
                       !.log.fetch = "retry"]
       ELSE rejected([s1 EXCEPT !.cache = (CacheKey(call.url, NoOptions) :>
                                              [data |-> failed.lastError, timestamp |-> s.now]) @@ @,
                                !.log.fetch = "giveup", !.log.call = failed,
                                !.log.value = failed.lastError],
                     failed)
    ) : s \in {s0}, call \in {call0}, kind \in {kind0}})

\* fetchWithRetry: attempt i threw (transport error or non-2xx); unless it was the
\* last one, the next attempt is issued after a delay of retryDelay * (i + 1)
attemptFailed(s0, call0, kind0) ==
    The({(
    LET failed == [call EXCEPT !.lastError = [attempt |-> call.i + 1, kind |-> kind]]
        s1 == [s EXCEPT !.calls = Without(@, call)]
    IN IF call.i < s.retryAttempts - 1
       THEN [s1 EXCEPT !.calls = With(@, [failed EXCEPT !.i = @ + 1, !.attempts = @ + 1,
                                                        !.delays = Append(@, Backoff(call.i))]),
                       !.log.fetch = "retry"]
       ELSE rejected([s1 EXCEPT !.log.fetch = "giveup", !.log.call = failed,
                                !.log.value = failed.lastError],
                     failed)
    ) : s \in {s0}, call \in {call0}, kind \in {kind0}})

\* ---------------------------------------------------------------- actions
\* AdvancedAnalytics after its constructor
NewAnalytics == [portfolioData |-> NoData, transactions |-> << >>, assets |-> << >>]
NoAnswer == [op |-> "none"]

\* the wallet history a previous session left in localStorage
StoredWallets == <<WalletB, WalletA>>

Init ==
    /\ booted = FALSE
    /\ currentWallet = null
    /\ portfolioData = NoData
    /\ transactions = << >>
    /\ assets = << >>
    /\ refreshInterval = 0
    /\ isLoading = FALSE
    /\ activeTab = "portfolio"
    /\ wallets = StoredWallets
    /\ snapCache = << >>
    /\ settings = DefaultSettings
    /\ timers = << >>
    /\ cache = << >>
    /\ calls = EmptyBag
    /\ loads = [f \in 1..MaxLoads |-> IdleLoad]
    /\ now = 0
    /\ ticks = 0
    /\ events = 0
    /\ firings = 0
    /\ failing = 0
    /\ event = NoLog
    /\ analytics = NewAnalytics
    /\ answer = NoAnswer

\* room for the reads a refresh may start
RoomForLoad == isLoading \/ BagCardinality(calls) + 3 <= MaxCalls
RoomForTx == TxLoads(S) < MaxTxLoads /\ BagCardinality(calls) < MaxCalls

\* a user event is counted against the budget
UserEvent == events < MaxEvents /\ events' = events + 1

\* constructor: init() ends with checkUrlParams()
CheckUrlParams ==
    /\ ~booted
    /\ \E wallet \in UrlParams : CommitApp(checkUrlParams(S, wallet))
    /\ booted' = TRUE
    /\ UNCHANGED <<ticks, events, firings, failing>>

AddWallet ==
    /\ booted /\ RoomForLoad /\ UserEvent
    /\ \E input \in InputTexts : CommitApp(addWallet(S, input))
    /\ UNCHANGED <<booted, ticks, firings, failing>>

SelectWallet ==
    /\ booted /\ RoomForLoad /\ UserEvent
    /\ \E k \in 1..Len(wallets) : CommitApp(setCurrentWallet(S, wallets[k]))
    /\ UNCHANGED <<booted, ticks, firings, failing>>

RemoveWallet ==
    /\ booted /\ UserEvent
    /\ \E k \in 1..Len(wallets) : CommitApp(removeWallet(S, wallets[k]))
    /\ UNCHANGED <<booted, ticks, firings, failing>>

ClearWalletHistory ==
    /\ booted /\ UserEvent
    /\ CommitApp(clearWalletHistory(S))
    /\ UNCHANGED <<booted, ticks, firings, failing>>

RefreshAll ==
    /\ booted /\ RoomForLoad /\ UserEvent
    /\ CommitApp(loadAllData(S, FALSE))
    /\ UNCHANGED <<booted, ticks, firings, failing>>

RefreshTx ==
    /\ booted /\ RoomForTx /\ UserEvent
    /\ CommitApp(loadTransactions(S, 0))
    /\ UNCHANGED <<booted, ticks, firings, failing>>

SwitchTab ==
    /\ booted /\ RoomForTx /\ UserEvent
    /\ \E tabName \in Tabs : CommitApp(switchTab(S, tabName))
    /\ UNCHANGED <<booted, ticks, firings, failing>>

TimerFire ==
    /\ booted /\ RoomForLoad
    /\ firings < MaxFirings
    /\ firings' = firings + 1
    /\ \E id \in DOMAIN timers :
          CommitApp(loadAllData([S EXCEPT !.log.fired = TRUE,
                                       !.log.stale = timers[id].startedFor # currentWallet],
                             FALSE))
    /\ UNCHANGED <<booted, ticks, events, failing>>

Response ==
    /\ \E call \in BagToSet(calls) : CommitApp(attemptSucceeded(S, call))
    /\ UNCHANGED <<booted, ticks, events, firings, failing>>

ResponseError ==
    /\ \E call \in BagToSet(calls), kind \in AppErrorKinds :
          /\ call.i > 0 \/ failing < MaxFailing
          /\ failing' = IF call.i > 0 THEN failing ELSE failing + 1
          /\ CommitApp(attemptFailed(S, call, kind))
    /\ UNCHANGED <<booted, ticks, events, firings>>

TimePasses ==
    /\ ticks < MaxTicks
    /\ \E d \in LongSteps : CommitApp([S EXCEPT !.now = @ + d])
    /\ ticks' = ticks + 1
    /\ UNCHANGED <<booted, events, firings, failing>>

Next ==
    \/ CheckUrlParams
    \/ AddWallet
    \/ SelectWallet
    \/ RemoveWallet
    \/ ClearWalletHistory
    \/ RefreshAll
    \/ RefreshTx
    \/ SwitchTab
    \/ TimerFire
    \/ Response
    \/ ResponseError
    \/ TimePasses

Spec == Init /\ [][Next]_vars

\* ------------------------------------- the API client and the caches, used directly
AttemptSucceed ==
    /\ \E call \in BagToSet(calls) : Commit(attemptSucceeded(S, call))
    /\ UNCHANGED <<booted, ticks, events, firings, failing>>

AttemptFail ==
    /\ \E call \in BagToSet(calls), kind \in ErrorKinds :
          /\ call.i > 0 \/ failing < MaxFailing
          /\ failing' = IF call.i > 0 THEN failing ELSE failing + 1
          /\ Commit(attemptFailed(S, call, kind))
    /\ UNCHANGED <<booted, ticks, events, firings>>

Tick ==
    /\ ticks < MaxTicks
    /\ \E d \in TimeSteps : Commit([S EXCEPT !.now = @ + d])
    /\ ticks' = ticks + 1
    /\ UNCHANGED <<booted, events, firings, failing>>

ApiUse == events < MaxApiCalls /\ events' = events + 1

Result(r) == [r.s EXCEPT !.log.value = IF r.rejected THEN NoData ELSE
                                        [settled |-> r.settled, value |-> r.value]]

ApiRead ==
    /\ ApiUse /\ BagCardinality(calls) < MaxCalls
    /\ \/ \E wallet \in ApiWallets :
             \/ Commit(Result(getBalance(S, wallet, Direct)))
             \/ Commit(Result(getAssets(S, wallet, Direct)))
             \/ Commit(Result(getTransactions(S, wallet, Direct)))
       \/ Commit(Result(getNetworkStatus(S, Direct)))
    /\ UNCHANGED <<booted, ticks, firings, failing>>

SnapshotData(w) == [balance |-> BalanceOf(Payload(BalanceUrl(w))).value,
                    assets |-> AssetsOf(Payload(AssetsUrl(w))).value,
                    networkStatus |-> NetworkStatusOf(Payload(StatusUrl)).value, wallet |-> w]

SnapshotPut ==
    /\ ApiUse
    /\ \E wallet \in ApiWallets : Commit(cachePortfolioData(S, wallet, SnapshotData(wallet)))
    /\ UNCHANGED <<booted, ticks, firings, failing>>

SnapshotGet ==
    /\ ApiUse
    /\ \E wallet \in ApiWallets :
          LET r == getCachedPortfolioData(S, wallet)
          IN Commit([r.s EXCEPT !.log.value = r.data])
    /\ UNCHANGED <<booted, ticks, firings, failing>>

NextApi ==
    \/ ApiRead
    \/ SnapshotPut
    \/ SnapshotGet
    \/ AttemptSucceed
    \/ AttemptFail
    \/ Tick

SpecApi == Init /\ [][NextApi]_vars

\* ====================================================================== claims
Key(url) == CacheKey(url, NoOptions)
Fresh(url) == Key(url) \in DOMAIN cache /\ now - cache[Key(url)].timestamp < cacheTimeout
Urls == {StatusUrl} \cup UNION {{BalanceUrl(w), AssetsUrl(w), TransfersUrl(w)} : w \in ApiWallets \cup ValidWallets}

\* C1: two uses of fetchWithRetry with the same request key within the TTL, the
\* second made after the first returned or while it is in flight, invoke the
\* network once in total: a key never has a first attempt in flight next to
\* another first attempt or next to a fresh cached response.
C1_OneNetworkOperationPerKey ==
    \A url \in Urls :
        SumOver(calls, {r \in InFlight(S) : r.url = url /\ r.i = 0})
            + (IF Fresh(url) THEN 1 ELSE 0) <= 1

\* C2: on a miss at most 3 attempts are made; k < 3 failures then a success give
\* k + 1 attempts, the response is returned and cached; 3 failures give 3
\* attempts and the error thrown is the one of the third attempt.
C2_AttemptsAndOutcome ==
    /\ event.fetch = "ok" =>
          /\ event.call.attempts = event.call.i + 1
          /\ event.call.attempts <= retryAttempts
          /\ event.call.lastError.attempt = event.call.i
          /\ event.value = Payload(event.call.url)
          /\ Key(event.call.url) \in DOMAIN cache
          /\ cache[Key(event.call.url)] = [data |-> event.value, timestamp |-> now]
    /\ event.fetch = "giveup" =>
          /\ event.call.attempts = retryAttempts
          /\ event.value = event.call.lastError
          /\ event.value.attempt = retryAttempts
    /\ \A r \in InFlight(S) : r.attempts <= retryAttempts /\ r.attempts = r.i + 1

C2_Witness == event.fetch = "ok" /\ event.call.i = 2

\* C3: only a successful attempt writes the request cache: a failed attempt and a
\* give-up leave the map as it was, and what the map holds is always a response.
C3_FailuresNotCached ==
    /\ [][event'.fetch \in {"retry", "giveup"} => cache' = cache]_vars
    /\ [](\A k \in DOMAIN cache : cache[k].data = Payload(k[1]))

C3_Witness == event.fetch = "giveup" /\ Key(event.call.url) \notin DOMAIN cache

Ttl(l) == IF l.cache = "request" THEN cacheTimeout ELSE CACHE_DURATION
Store(l) == IF l.cache = "request" THEN cache ELSE snapCache
LookupOk(l) ==
    /\ l.had /\ l.age < Ttl(l) => l.returned = l.stored /\ l.returned # NoData
    /\ ~l.had \/ l.age >= Ttl(l) => l.returned = NoData

\* C9 as stated: in both caches a lookup returns the stored value only within the
\* TTL, treats a missing or expired entry as absent, and removes an expired entry.
C9_ExpiredEntriesRemoved ==
    \A l \in event.lookups :
        /\ LookupOk(l)
        /\ l.had /\ l.age >= Ttl(l) => l.key \notin DOMAIN Store(l)

\* C9 as amended: the same, but only the snapshot cache removes the expired entry
\* it finds; the request cache leaves it in the map until a success overwrites it.
C9_LazyExpiry ==
    \A l \in event.lookups :
        /\ LookupOk(l)
        /\ l.had /\ l.age >= Ttl(l) /\ l.cache = "snapshot" => l.key \notin DOMAIN snapCache
        /\ l.had /\ l.cache = "request" => l.key \in DOMAIN cache

C9_Witness ==
    \E l \in event.lookups : l.cache = "snapshot" /\ l.had /\ l.age = CACHE_DURATION

\* what the upstream holds for a wallet, in the shape loadAllData assembles
BelongsTo(pd, w) ==
    /\ pd.balance = BalanceOf(Payload(BalanceUrl(w))).value
    /\ pd.assets = AssetsOf(Payload(AssetsUrl(w))).value

\* C4: a snapshot published, or cached under a wallet, holds the upstream data of
\* the wallet it is labelled with, whatever wallet was current when the refresh
\* that produced it was started.
C4_SnapshotMatchesItsWallet ==
    /\ portfolioData # NoData => BelongsTo(portfolioData, portfolioData.wallet)
    /\ \A w \in DOMAIN snapCache : BelongsTo(snapCache[w].data, w)

\* C5: at most one full refresh is in flight, isLoading tells whether one is, and
\* a refresh requested meanwhile is dropped: it starts no read and is not queued.
C5_OneRefreshAtATime ==
    /\ [](Cardinality(ActiveLoads(S)) <= 1)
    /\ [](isLoading <=> ActiveLoads(S) # {})
    /\ [][event'.dropped => calls' = calls /\ loads' = loads /\ isLoading' = isLoading]_vars

C5_Witness == event.dropped /\ isLoading /\ currentWallet # null

EntryExpired(b) == b.entry # NoData /\ b.now - b.entry.timestamp >= CACHE_DURATION

C8_FailureKeepsCachedSnapshot ==
    event.ended = "failed" =>
        /\ portfolioData = event.before.portfolioData
        /\ event.before.entry # NoData => SnapEntry(S, event.before.wallet) = event.before.entry

\* C8 as amended: a refresh that fails leaves on display whatever was published
\* before, and leaves in place the cached snapshot of the wallet if it was
\* younger than CACHE_DURATION when the refresh started; an older one is gone.
C8_FailureKeepsUnexpiredSnapshot ==
    event.ended = "failed" =>
        /\ portfolioData = event.before.portfolioData
        /\ event.before.entry # NoData =>
              IF EntryExpired(event.before)
              THEN SnapEntry(S, event.before.wallet) = NoData
              ELSE SnapEntry(S, event.before.wallet) = event.before.entry

C8_Witness ==
    /\ event.ended = "failed"
    /\ event.before.entry # NoData
    /\ ~EntryExpired(event.before)
    /\ SnapEntry(S, event.before.wallet) = event.before.entry

WellFormed(w) == ~Falsy(w) /\ Length(w) >= MinWalletLength

\* C10: a read asked for with an empty or malformed wallet identifier is rejected
\* before any network attempt, whether the identifier came from the input field
\* or from the URL: no attempt in flight carries such an identifier.
C10_NoAttemptForMalformedWallet ==
    \A r \in InFlight(S) : r.url # StatusUrl => WellFormed(r.url[2])

\* ------------------------------------------------ read operations on a body
\* What the four read operations return once fetchWithRetry has handed them a
\* body, for the bodies a server can answer with.  A behaviour is one call.
Scalars == {JNull, Num(0), Num(7), Str(<< >>), Text("x"), Bool(TRUE), EmptyObj, Arr(<< >>)}

SeqsUpTo(E, n) == UNION {[1..k -> E] : k \in 0..n}

BalanceBodies ==
    Scalars \cup {Obj([balance |-> x]) :
                     x \in Scalars \cup {Obj([balance |-> y]) :
                                            y \in {JNull, Num(0), Num(100), Str(<<"1", "0">>)}}}

Field(name, x) == IF x = Undefined THEN << >> ELSE name :> x

UnitValues == {Undefined, Num(5), Str(<<"1", "2">>), Str(<<"-", "5">>), Str(<<"a", "b", "c">>)}
NameValues == {Undefined, Str(<< >>), Text("QX")}
AssetEntries ==
    {JNull, Num(1), EmptyObj}
    \cup {Obj([data |-> Obj(Field("issuedAsset", Obj(Field("name", n)))
                             @@ Field("numberOfUnits", u))]) :
             n \in NameValues, u \in UnitValues}
AssetBodies ==
    Scalars \cup {Obj([ownedAssets |-> x]) : x \in Scalars}
            \cup {Obj([ownedAssets |-> Arr(owned)]) : owned \in SeqsUpTo(AssetEntries, MaxEntries)}

TxEntries == {JNull, EmptyObj, Transfer("in", "S", WalletA, Num(3)),
              Transfer("out", WalletA, "D", Str(<<"4">>))}
TickBatches ==
    {JNull, Obj([transactions |-> Num(5)])}
    \cup {TickBatch(t, txs) : t \in {10, 20}, txs \in SeqsUpTo(TxEntries, MaxEntries)}
TransferBodies ==
    Scalars \cup {Obj([transactions |-> Arr(batches)]) :
                     batches \in SeqsUpTo(TickBatches, MaxBatches)}

StatusBodies ==
    Scalars \cup {Obj(Field("lastProcessedTick", t) @@ Field("epoch", e)) :
                     t \in {Undefined, JNull, EmptyObj,
                            Obj([tickNumber |-> Num(1000), timestamp |-> Text("t1000")])},
                     e \in {Undefined, Num(7)}}

ReadBalanceBody ==
    /\ answer = NoAnswer
    /\ \E body \in BalanceBodies :
          answer' = [op |-> "getBalance", body |-> body, made |-> BalanceOf(body)]
    /\ UNCHANGED <<appVars, analytics>>

ReadAssetsBody ==
    /\ answer = NoAnswer
    /\ \E body \in AssetBodies :
          answer' = [op |-> "getAssets", body |-> body, made |-> AssetsOf(body)]
    /\ UNCHANGED <<appVars, analytics>>

ReadTransactionsBody ==
    /\ answer = NoAnswer
    /\ \E body \in TransferBodies, limit \in 0..MaxLimit :
          answer' = [op |-> "getTransactions", body |-> body, limit |-> limit,
                     made |-> TransactionsOf(body, WalletA, limit)]
    /\ UNCHANGED <<appVars, analytics>>

ReadStatusBody ==
    /\ answer = NoAnswer
    /\ \E body \in StatusBodies :
          answer' = [op |-> "getNetworkStatus", body |-> body, made |-> NetworkStatusOf(body)]
    /\ UNCHANGED <<appVars, analytics>>

NextReads ==
    \/ ReadBalanceBody
    \/ ReadAssetsBody
    \/ ReadTransactionsBody
    \/ ReadStatusBody

SpecReads == Init /\ [][NextReads]_vars

IsRead == answer.op \in {"getBalance", "getAssets", "getTransactions", "getNetworkStatus"}

\* C11: whatever body the server answered with, each read operation returns
\* (a zero balance, an empty list or a zeroed status when the body lacks the
\* data) and does not raise an error.
C11_BodiesNeverRaise ==
    IsRead => ~answer.made.threw

Prefix(p, q) == Len(p) <= Len(q) /\ p = SubSeq(q, 1, Len(p))

\* C12: for every limit >= 0 and every body, getTransactions returns at most
\* limit transactions, and they are the first ones of the body in tick-batch
\* order (what is returned is the start of what a larger limit returns).
C12_AtMostLimitInOrder ==
    answer.op = "getTransactions" /\ ~answer.made.threw =>
        /\ Len(answer.made.value) <= answer.limit
        /\ LET all == TransactionsOf(answer.body, WalletA, MaxBatches * MaxEntries + 1)
           IN ~all.threw => Prefix(answer.made.value, all.value)

\* C13: every holding getAssets returns has an amount that is a non-negative
\* integer, whatever the unit count of the body is (0 when missing or unparsable).
C13_AmountsNonNegative ==
    answer.op = "getAssets" /\ ~answer.made.threw =>
        \A k \in 1..Len(answer.made.value) :
            /\ answer.made.value[k].amount.t = "number"
            /\ answer.made.value[k].amount.v >= 0

\* an upstream entry that carries a name: data.issuedAsset.name is there and not empty
Named(e) ==
    /\ e.t = "object" /\ "data" \in DOMAIN e.v
    /\ e.v.data.t = "object" /\ "issuedAsset" \in DOMAIN e.v.data.v
    /\ e.v.data.v.issuedAsset.t = "object" /\ "name" \in DOMAIN e.v.data.v.issuedAsset.v
    /\ e.v.data.v.issuedAsset.v.name \notin {JNull, Str(<< >>)}
Owned(body) ==
    IF body.t = "object" /\ "ownedAssets" \in DOMAIN body.v /\ body.v.ownedAssets.t = "array"
    THEN body.v.ownedAssets.v ELSE << >>

\* C14: getAssets leaves out exactly the upstream entries without a name: the
\* result has one holding per named entry, in the upstream order.
C14_ExactlyTheUnnamedExcluded ==
    answer.op = "getAssets" /\ ~answer.made.threw =>
        LET owned == Owned(answer.body)
            named == SelectSeq(owned, Named)
        IN /\ Len(answer.made.value) = Len(owned) - Cardinality({k \in 1..Len(owned) : ~Named(owned[k])})
           /\ Len(answer.made.value) = Len(named)
           /\ \A k \in 1..Len(named) :
                 answer.made.value[k].name = named[k].v.data.v.issuedAsset.v.name

C14_Witness ==
    /\ answer.op = "getAssets" /\ ~answer.made.threw
    /\ Len(Owned(answer.body)) = 2
    /\ Len(answer.made.value) = 1

\* ------------------------------------------------------ AdvancedAnalytics
\* Amounts, ticks and balances are integers; names and addresses are texts,
\* sequences of characters.
Chars(n, c) == [k \in 1..n |-> c]
UnknownText == <<"U", "n", "k", "n", "o", "w", "n">>

\* Array.prototype.sort: stable; Less(a, b) when the comparator puts a first
StableSort(xs, Less(_, _)) ==
    The({LET Rank(k) == 1 + Cardinality({j \in 1..Len(v) :
                            \/ Less(v[j], v[k])
                            \/ ~Less(v[k], v[j]) /\ j < k})
         IN [p \in 1..Len(v) |-> v[CHOOSE k \in 1..Len(v) : Rank(k) = p]] : v \in {xs}})

ByAmountDescending(a, b) == a.amount > b.amount
ByTick(a, b) == a.tick < b.tick
Last(xs, n) == The({SubSeq(v, MaxOf(1, Len(v) - n + 1), Len(v)) : v \in {xs}})

\* the amounts of xs from the k-th on, added up
RECURSIVE SumAmountsFrom(_, _)
SumAmountsFrom(xs, k) == IF k > Len(xs) THEN 0 ELSE xs[k].amount + SumAmountsFrom(xs, k + 1)
SumAmounts(xs) == The({SumAmountsFrom(v, 1) : v \in {xs}})

\* transactions || [] and assets || []: a list that was not given is null
Given(xs) == [null |-> FALSE, items |-> xs]
OrEmpty(x) == IF x.null THEN << >> ELSE x.items
setData(this, portfolio, txs, holdings) ==
    [this EXCEPT !.portfolioData = portfolio,
                 !.transactions = OrEmpty(txs),
                 !.assets = OrEmpty(holdings)]

\* the Herfindahl-Hirschman index of the holdings from the k-th on, added to sum
RECURSIVE Hhi(_, _, _, _)
Hhi(holdings, totalAssets, k, sum) ==
    IF k > Len(holdings) THEN sum
    ELSE The({The({Hhi(holdings, totalAssets, k + 1, added) :
                      added \in {FAdd(sum, FMul(share, share))}}) :
                 share \in {FDiv(Double(holdings[k].amount), Double(totalAssets))}})

\* calculateDiversityScore with `hhi * 100` for `(1 - hhi) * 100` on line 45: the
\* index itself on the scale of 0 to 100, high for a concentrated portfolio
calculateDiversityScoreUninverted(this) ==
    IF this.assets = << >> THEN 0
    ELSE The({IF totalAssets = 0 THEN 0
              ELSE The({The({IF FCmp(scaled, Double(100)) > 0 THEN 100
                             ELSE MathRound(scaled) :
                                scaled \in {FMul(hhi, Double(100))}}) :
                           hhi \in {Hhi(this.assets, totalAssets, 1, Double(0))}}) :
                 totalAssets \in {SumAmounts(this.assets)}})
calculateDiversityScore(this) ==
    IF this.assets = << >> THEN 0
    ELSE The({IF totalAssets = 0 THEN 0
              ELSE The({IF FCmp(hhi, Double(1)) > 0 THEN 0
                        ELSE The({IF FCmp(scaled, Double(100)) > 0 THEN 100
                                  ELSE MathRound(scaled) :
                                     scaled \in {FMul(FSub(Double(1), hhi), Double(100))}}) :
                           hhi \in {Hhi(this.assets, totalAssets, 1, Double(0))}}) :
                 totalAssets \in {SumAmounts(this.assets)}})

\* this.assets after calculateConcentrationRisk: the array is sorted in place
AssetsAfterConcentrationRisk(this) == StableSort(this.assets, ByAmountDescending)

RiskLevelInclusive(topAssetPercentage) ==
    LET AtLeast(n) == FCmp(topAssetPercentage, Double(n)) >= 0
    IN IF AtLeast(70) THEN "High"
       ELSE IF AtLeast(50) THEN "Medium"
       ELSE IF AtLeast(30) THEN "Low"
       ELSE "Very Low"
RiskLevel(topAssetPercentage) ==
    LET Above(n) == FCmp(topAssetPercentage, Double(n)) > 0
    IN IF Above(70) THEN "High"
       ELSE IF Above(50) THEN "Medium"
       ELSE IF Above(30) THEN "Low"
       ELSE "Very Low"

\* calculateConcentrationRisk past its early return: there are holdings
ConcentrationOf(this) ==
    The({The({[level |-> RiskLevel(topAssetPercentage),
               percentage |-> MathRound(topAssetPercentage),
               topAsset |-> IF sortedAssets[1].name # << >> THEN sortedAssets[1].name
                            ELSE <<"N", "o", "n", "e">>] :
                 topAssetPercentage \in
                     {IF totalAssets > 0
                      THEN FMul(FDiv(Double(sortedAssets[1].amount), Double(totalAssets)),
                                Double(100))
                      ELSE Double(0)}}) :
            totalAssets \in {SumAmounts(this.assets)},
            sortedAssets \in {AssetsAfterConcentrationRisk(this)}})

calculateConcentrationRiskOfNothing(this) ==
    IF this.assets = << >>
    THEN [level |-> RiskLevel(Double(0)), percentage |-> 0, topAsset |-> <<"N", "o", "n", "e">>]
    ELSE ConcentrationOf(this)
calculateConcentrationRisk(this) ==
    IF this.assets = << >> THEN [level |-> "Unknown", percentage |-> 0]
    ELSE ConcentrationOf(this)

PositiveTicks(txs) == SelectSeq([k \in 1..Len(txs) |-> txs[k].tick], LAMBDA t : t > 0)
MinTick(ts) == CHOOSE t \in {ts[k] : k \in 1..Len(ts)} :
                    \A k \in 1..Len(ts) : t <= ts[k]
MaxTick(ts) == CHOOSE t \in {ts[k] : k \in 1..Len(ts)} :
                    \A k \in 1..Len(ts) : t >= ts[k]

getDaySpanUnfloored(this) ==
    IF Len(this.transactions) < 2 THEN Double(1)
    ELSE The({IF Len(txTicks) < 2 THEN Double(1)
              ELSE FDiv(Double(MaxTick(txTicks) - MinTick(txTicks)), Double(TicksPerDay)) :
                 txTicks \in {PositiveTicks(this.transactions)}})
getDaySpan(this) ==
    IF Len(this.transactions) < 2 THEN Double(1)
    ELSE The({IF Len(txTicks) < 2 THEN Double(1)
              ELSE The({IF FCmp(days, Double(1)) < 0 THEN Double(1) ELSE days :
                           days \in {FDiv(Double(MaxTick(txTicks) - MinTick(txTicks)),
                                          Double(TicksPerDay))}}) :
                 txTicks \in {PositiveTicks(this.transactions)}})

truncateAddress(address) ==
    IF address = << >> \/ address = UnknownText THEN address
    ELSE SubSeq(address, 1, MinOf(8, Len(address))) \o <<".", ".", ".">>
             \o SubSeq(address, MaxOf(Len(address) - 6, 0) + 1, Len(address))

Counterparty(tx) == IF tx.type = "incoming" THEN tx.sourceId ELSE tx.destId
Counted(tx) == Counterparty(tx) # << >> /\ Counterparty(tx) # UnknownText

\* Object.entries(counterparties): the counted addresses in order of first
\* appearance, each with its number of transactions
RECURSIVE CounterpartyEntries(_, _, _)
CounterpartyEntries(txs, k, seen) ==
    IF k > Len(txs) THEN << >>
    ELSE IF ~Counted(txs[k]) \/ Counterparty(txs[k]) \in seen
         THEN CounterpartyEntries(txs, k + 1, seen)
    ELSE <<[address |-> Counterparty(txs[k]),
            count |-> Cardinality({j \in 1..Len(txs) :
                          Counted(txs[j]) /\ Counterparty(txs[j]) = Counterparty(txs[k])})]>>
         \o The({CounterpartyEntries(txs, k + 1, seen1) :
                    seen1 \in {seen \cup {Counterparty(txs[k])}}})

ByCountDescending(a, b) == a.count > b.count

analyzeTransactionPatterns(this) ==
    IF this.transactions = << >>
    THEN [averageAmount |-> 0, frequency |-> Double(0), pattern |-> "Insufficient data",
          peakHours |-> << >>, topCounterparties |-> << >>]
    ELSE The({The({LET count == Len(this.transactions)
                       avgAmount == FDiv(Double(SumAmounts(this.transactions)), Double(count))
                       top == SubSeq(entries, 1, MinOf(TopCounterparties, Len(entries)))
                   IN [averageAmount |-> MathRound(avgAmount),
                       frequency |-> FDiv(Double(MathRound(FMul(frequency, Double(10)))),
                                          Double(10)),
                       pattern |-> IF FCmp(frequency, Double(5)) > 0 THEN "High Activity"
                                   ELSE IF FCmp(frequency, Double(2)) > 0
                                   THEN "Moderate Activity"
                                   ELSE "Low Activity",
                       topCounterparties |->
                           [k \in 1..Len(top) |->
                               [address |-> truncateAddress(top[k].address),
                                transactions |-> top[k].count]]] :
                      frequency \in {IF FCmp(daySpan, Double(0)) > 0
                                     THEN FDiv(Double(Len(this.transactions)), daySpan)
                                     ELSE Double(0)}}) :
                 daySpan \in {getDaySpan(this)},
                 entries \in {StableSort(CounterpartyEntries(this.transactions, 1, {}),
                                         ByCountDescending)}})

Related(txs, assetName) ==
    SelectSeq(txs, LAMBDA tx : tx.sourceId = assetName \/ tx.destId = assetName)
CountOf(txs, type) == Len(SelectSeq(txs, LAMBDA tx : tx.type = type))

calculateAssetTrend(this, assetName) ==
    The({LET incomingRecent == CountOf(recentTxs, "incoming")
             outgoingRecent == CountOf(recentTxs, "outgoing")
         IN IF Len(recentTxs) < 3 THEN "stable"
            ELSE IF 2 * incomingRecent > 3 * outgoingRecent THEN "increasing"
            ELSE IF 2 * outgoingRecent > 3 * incomingRecent THEN "decreasing"
            ELSE "stable" :
            recentTxs \in {Last(Related(this.transactions, assetName), TrendWindow)}})

calculateAssetPerformance(this) ==
    LET Metrics(asset) ==
            The({[name |-> asset.name,
                  amount |-> asset.amount,
                  incomingCount |-> CountOf(relatedTxs, "incoming"),
                  outgoingCount |-> CountOf(relatedTxs, "outgoing"),
                  netFlow |-> CountOf(relatedTxs, "incoming") - CountOf(relatedTxs, "outgoing"),
                  activity |-> Len(relatedTxs),
                  trend |-> calculateAssetTrend(this, asset.name)] :
                    relatedTxs \in {Related(this.transactions, asset.name)}})
    IN StableSort([k \in 1..Len(this.assets) |-> Metrics(this.assets[k])], ByAmountDescending)

NoNetworkActivity ==
    [tickRange |-> [min |-> 0, max |-> 0], tickSpan |-> 0, averageTicksPerTx |-> 0,
     networkUtilization |-> "Unknown"]

analyzeNetworkActivity(this) ==
    The({IF this.transactions = << >> \/ txTicks = << >> THEN NoNetworkActivity
         ELSE The({The({[tickRange |-> [min |-> MinTick(txTicks), max |-> MaxTick(txTicks)],
                         tickSpan |-> tickSpan,
                         averageTicksPerTx |-> MathRound(averageTicksPerTx),
                         networkUtilization |->
                             IF FCmp(averageTicksPerTx, Double(100)) < 0 THEN "High"
                             ELSE IF FCmp(averageTicksPerTx, Double(500)) < 0 THEN "Medium"
                             ELSE "Low"] :
                           averageTicksPerTx \in
                               {FDiv(Double(tickSpan), Double(Len(this.transactions)))}}) :
                      tickSpan \in {MaxTick(txTicks) - MinTick(txTicks)}}) :
            txTicks \in {PositiveTicks(this.transactions)}})

\* the literal 0.1
Tenth == FDiv(Double(1), Double(10))

Sorted(this) == [this EXCEPT !.assets = AssetsAfterConcentrationRisk(this)]

generateInsights(this) ==
    The({
       (IF diversityScore < 30
        THEN <<[type |-> "warning", title |-> "Low Portfolio Diversity",
                score |-> diversityScore]>>
        ELSE IF diversityScore > 70
        THEN <<[type |-> "success", title |-> "Well Diversified Portfolio",
                score |-> diversityScore]>>
        ELSE << >>)
       \o (IF concentrationRisk.level = "High"
           THEN <<[type |-> "warning", title |-> "High Concentration Risk",
                   percentage |-> concentrationRisk.percentage,
                   topAsset |-> concentrationRisk.topAsset]>>
           ELSE << >>)
       \o (IF FCmp(patterns.frequency, Double(5)) > 0
           THEN <<[type |-> "info", title |-> "High Trading Activity",
                   frequency |-> patterns.frequency]>>
           ELSE IF FCmp(patterns.frequency, Tenth) < 0
           THEN <<[type |-> "info", title |-> "Low Activity Portfolio"]>>
           ELSE << >>) :
        diversityScore \in {calculateDiversityScore(this)},
        concentrationRisk \in {calculateConcentrationRisk(this)},
        patterns \in {analyzeTransactionPatterns(this)}})

ReversedAsApplied(tx, balance) ==
    IF tx.type = "incoming" THEN balance + tx.amount ELSE balance - tx.amount
Reversed(tx, balance) ==
    IF tx.type = "incoming" THEN balance - tx.amount ELSE balance + tx.amount
Abs(n) == IF n < 0 THEN -n ELSE n

\* the data points unshifted while walking back from the k-th sorted
\* transaction; a point's date is the number of hours before now
RECURSIVE DataPoints(_, _, _, _, _)
DataPoints(sortedTxs, k, runningBalance, currentBalance, dataPoints) ==
    IF k = 0 THEN dataPoints
    ELSE The({The({DataPoints(sortedTxs, k - 1, before, currentBalance, unshifted) :
                      unshifted \in
                          {IF \/ (k - 1) % SampleEvery = 0
                              \/ FCmp(Double(Abs(tx.amount)),
                                      FMul(Double(currentBalance), Tenth)) > 0
                           THEN <<[tick |-> tx.tick, balance |-> MaxOf(0, before),
                                   date |-> Len(sortedTxs) - (k - 1)]>> \o dataPoints
                           ELSE dataPoints}}) :
                 tx \in {sortedTxs[k]}, before \in {Reversed(sortedTxs[k], runningBalance)}})

calculateRealBalanceTimeline(this) ==
    IF this.transactions = << >> THEN [labels |-> << >>, balances |-> << >>]
    ELSE The({The({[labels |-> [k \in 1..Len(limitedData) |-> limitedData[k].date],
                    balances |-> [k \in 1..Len(limitedData) |-> limitedData[k].balance],
                    ticks |-> [k \in 1..Len(limitedData) |-> limitedData[k].tick]] :
                      limitedData \in
                          {Last(DataPoints(sortedTxs, Len(sortedTxs), currentBalance,
                                    currentBalance,
                                    <<[tick |-> sortedTxs[Len(sortedTxs)].tick,
                                       balance |-> currentBalance, date |-> 0]>>),
                                PointLimit)}}) :
                 sortedTxs \in {StableSort(this.transactions, ByTick)},
                 currentBalance \in {IF this.portfolioData = NoData THEN 0
                                     ELSE this.portfolioData.balance}})

getAnalyticsSummary(this) ==
    The({[diversity |-> calculateDiversityScore(this),
          concentration |-> calculateConcentrationRisk(this),
          patterns |-> analyzeTransactionPatterns(this),
          performance |-> calculateAssetPerformance(sorted),
          network |-> analyzeNetworkActivity(this),
          insights |-> generateInsights(sorted),
          timeline |-> calculateRealBalanceTimeline(this)] : sorted \in {Sorted(this)}})

\* ChartManager.generateTimelineData: the balances unshifted while walking back
\* from the k-th recent transaction; a label is the number of days before now
RECURSIVE TimelineBack(_, _, _, _)
TimelineBack(recentTxs, k, balance, made) ==
    IF k = 0 THEN made
    ELSE The({TimelineBack(recentTxs, k - 1, before, unshifted) :
                 before \in {Reversed(recentTxs[k], balance)},
                 unshifted \in {[labels |-> <<Len(recentTxs) - (k - 1)>> \o made.labels,
                                 balances |-> <<balance>> \o made.balances]}})

generateTimelineData(txs, currentBalance) ==
    The({TimelineBack(recentTxs, Len(recentTxs), currentBalance,
                      [labels |-> << >>, balances |-> << >>]) :
            recentTxs \in {Last(StableSort(txs, ByTick), RecentLimit)}})

\* --------------------------------------- the analytics applied to snapshots
\* Holdings named A, B, ... with amounts that make a top share of exactly 30
\* and 50 per cent and, as 1, 3, 8, 8, a score half-way between integers.
HoldingAmounts == {0, 1, 3, 8}
HoldingNames == <<"A", "B", "C", "D", "E", "F">>
Holding(k, amount) == [name |-> <<HoldingNames[k]>>, amount |-> amount]
AssetLists ==
    UNION {{[k \in 1..n |-> Holding(k, f[k])] : f \in [1..n -> HoldingAmounts]} :
              n \in 0..MaxAssets}

Me == <<"M", "E">>
Peer == <<"P", "E", "E", "R">> \o Chars(8, "0") \o <<"T", "A", "I", "L">>
Incoming(amount, tick) ==
    [type |-> "incoming", amount |-> amount, tick |-> tick,
     sourceId |-> IF tick = 0 THEN UnknownText ELSE Peer, destId |-> Me]
Outgoing(amount, tick) ==
    [type |-> "outgoing", amount |-> amount, tick |-> tick,
     sourceId |-> Me, destId |-> <<HoldingNames[1]>>]
Moves == {<<"incoming", 1>>, <<"incoming", 5>>, <<"outgoing", 1>>, <<"outgoing", 5>>}
Tx(move, tick) == IF move[1] = "incoming" THEN Incoming(move[2], tick)
                  ELSE Outgoing(move[2], tick)
TxTicks == {0, 10, 30000}
TxKinds == {Tx(move, tick) : move \in {<<"incoming", 5>>, <<"outgoing", 5>>}, tick \in TxTicks}
                \cup {Incoming(1, 0), Outgoing(1, 10)}
\* a history of n transactions, step ticks apart, repeating the moves of base
History(base, n, step) == [k \in 1..n |-> Tx(base[((k - 1) % Len(base)) + 1], k * step)]
Histories ==
    {History(base, n, step) :
        base \in SeqsUpTo(Moves, 2) \ {<< >>}, n \in {10, LongLen}, step \in {5, 2880}}
TxLists == SeqsUpTo(TxKinds, MaxTx) \cup Histories
Portfolios == {NoData} \cup {[balance |-> b] : b \in {0, 10, 100}}

Snapshots ==
    {[portfolioData |-> p, transactions |-> txs, assets |-> <<Holding(1, 7), Holding(2, 13)>>] :
        p \in Portfolios, txs \in TxLists}
    \cup {[portfolioData |-> [balance |-> 10], transactions |-> <<Outgoing(5, 10)>>,
           assets |-> holdings] : holdings \in AssetLists}

\* what setData is called with: the lists of a snapshot, or no lists at all
Arguments ==
    {<<given.portfolioData, Given(given.transactions), Given(given.assets)>> :
        given \in Snapshots}
    \cup {<<p, NoData, NoData>> : p \in Portfolios}

SetData ==
    /\ analytics = NewAnalytics
    /\ answer = NoAnswer
    /\ \E given \in Arguments :
          analytics' = setData(analytics, given[1], given[2], given[3])
    /\ UNCHANGED <<appVars, answer>>

\* one call of an operation that leaves the object as it is
Asked(op, made) ==
    /\ answer = NoAnswer
    /\ answer' = [op |-> op, made |-> made]
    /\ UNCHANGED <<appVars, analytics>>

\* one call of an operation that runs calculateConcentrationRisk
AskedSorting(op, made) ==
    /\ answer = NoAnswer
    /\ answer' = [op |-> op, made |-> made]
    /\ analytics' = Sorted(analytics)
    /\ UNCHANGED appVars

DiversityScoreAsked == Asked("calculateDiversityScore", calculateDiversityScore(analytics))
ConcentrationRiskAsked ==
    AskedSorting("calculateConcentrationRisk", calculateConcentrationRisk(analytics))
TransactionPatternsAsked ==
    Asked("analyzeTransactionPatterns", analyzeTransactionPatterns(analytics))
AssetPerformanceAsked == Asked("calculateAssetPerformance", calculateAssetPerformance(analytics))
NetworkActivityAsked == Asked("analyzeNetworkActivity", analyzeNetworkActivity(analytics))
InsightsAsked == AskedSorting("generateInsights", generateInsights(analytics))
BalanceTimelineAsked ==
    Asked("calculateRealBalanceTimeline", calculateRealBalanceTimeline(analytics))
AnalyticsSummaryAsked == AskedSorting("getAnalyticsSummary", getAnalyticsSummary(analytics))

\* ChartManager draws the balance chart of a transaction list and a balance
TimelineDataAsked ==
    /\ answer = NoAnswer
    /\ analytics = NewAnalytics
    /\ \E txs \in TxLists, currentBalance \in {0, 10, 100} :
          answer' = [op |-> "generateTimelineData", transactions |-> txs,
                     currentBalance |-> currentBalance,
                     made |-> generateTimelineData(txs, currentBalance)]
    /\ UNCHANGED <<appVars, analytics>>

NextAnalytics ==
    \/ SetData
    \/ DiversityScoreAsked
    \/ ConcentrationRiskAsked
    \/ TransactionPatternsAsked
    \/ AssetPerformanceAsked
    \/ NetworkActivityAsked
    \/ InsightsAsked
    \/ BalanceTimelineAsked
    \/ AnalyticsSummaryAsked
    \/ TimelineDataAsked

SpecAnalytics == Init /\ [][NextAnalytics]_vars

IsTimeline == answer.op = "calculateRealBalanceTimeline" /\ analytics.transactions # << >>
CurrentBalance == IF analytics.portfolioData = NoData THEN 0 ELSE analytics.portfolioData.balance
ByTickOrder == StableSort(analytics.transactions, ByTick)
Applied(tx, balance) ==
    IF tx.type = "incoming" THEN balance + tx.amount ELSE balance - tx.amount

\* the balance after the transactions from the k-th on happened to a balance
RECURSIVE Replay(_, _, _)
Replay(txs, k, balance) ==
    IF k > Len(txs) THEN balance
    ELSE The({Replay(txs, k + 1, after) : after \in {Applied(txs[k], balance)}})
\* what the transactions from the k-th on add to a balance
NetEffect(txs, k) == The({Replay(v, k, 0) : v \in {txs}})

\* the earliest point of the answered timeline lies before the transactions
\* from this one on: its date counts them
EarliestFrom == Len(ByTickOrder) - answer.made.labels[1] + 1
ReplayedFromEarliest ==
    The({Replay(sorted, EarliestFrom, answer.made.balances[1]) : sorted \in {ByTickOrder}})

\* C15 as stated: replaying the transactions forward from the balance of the
\* earliest reconstructed point gives the current balance, whatever points
\* sampling and truncation kept.
C15_ReplayReproducesBalance ==
    IsTimeline => ReplayedFromEarliest = CurrentBalance

\* C15 amended: the earliest point reports the current balance less the net
\* effect of the later transactions, or 0 when that is negative; the replay
\* gives the current balance in the first case and more than it in the second.
C15_ReplayReproducesUnclampedBalance ==
    IsTimeline =>
        LET unwound == CurrentBalance - NetEffect(ByTickOrder, EarliestFrom)
        IN /\ answer.made.balances[1] = MaxOf(0, unwound)
           /\ unwound >= 0 => ReplayedFromEarliest = CurrentBalance
           /\ unwound < 0 => ReplayedFromEarliest > CurrentBalance

\* a long history whose oldest points were cut off, replayed to a balance of 10
C15_Witness ==
    /\ IsTimeline
    /\ Len(answer.made.balances) = PointLimit
    /\ EarliestFrom > 1
    /\ CurrentBalance = 10
    /\ answer.made.balances[1] > 0
    /\ ReplayedFromEarliest = CurrentBalance

IsChartTimeline == answer.op = "generateTimelineData" /\ answer.transactions # << >>
\* at most 20 points, older before newer, the last one the current balance,
\* none negative
RecentNonNegative(made, currentBalance) ==
    /\ Len(made.balances) <= 20
    /\ Len(made.labels) = Len(made.balances)
    /\ \A k \in 1..(Len(made.labels) - 1) : made.labels[k] > made.labels[k + 1]
    /\ made.balances[Len(made.balances)] = currentBalance
    /\ \A k \in 1..Len(made.balances) : made.balances[k] >= 0

\* C16: a balance timeline made for display, by calculateRealBalanceTimeline
\* or by ChartManager.generateTimelineData, has at most 20 points, the most
\* recent ones ending with the current balance, and no negative balance.
C16_AtMostTwentyRecentNonNegative ==
    /\ IsTimeline => RecentNonNegative(answer.made, CurrentBalance)
    /\ IsChartTimeline => RecentNonNegative(answer.made, answer.currentBalance)

IsDiversity == answer.op = "calculateDiversityScore"
Total == SumAmounts(analytics.assets)
\* the squared amounts of xs from the k-th on, added up
RECURSIVE SumSquaresFrom(_, _)
SumSquaresFrom(xs, k) ==
    IF k > Len(xs) THEN 0 ELSE xs[k].amount * xs[k].amount + SumSquaresFrom(xs, k + 1)
SumSquares(xs) == SumSquaresFrom(xs, 1)
NonZero == {k \in 1..Len(analytics.assets) : analytics.assets[k].amount # 0}
\* n / d rounded to the nearest integer, a half upwards
Rounded(n, d) == (2 * n + d) \div (2 * d)

\* C17: the diversity score is round(100 * (1 - sum of squared amounts /
\* squared total)), an integer from 0 to 100; it is 0 when there are no
\* holdings, when all are zero and when exactly one is not zero, and 50 for
\* two equal holdings that are not zero.
C17_DiversityScoreFormula ==
    IsDiversity =>
        /\ answer.made \in 0..100
        /\ Total = 0 => answer.made = 0
        /\ Total > 0 =>
              answer.made = Rounded(100 * (Total * Total - SumSquares(analytics.assets)),
                                    Total * Total)
        /\ Cardinality(NonZero) = 1 => answer.made = 0
        /\ (/\ Len(analytics.assets) = 2
            /\ analytics.assets[1].amount = analytics.assets[2].amount
            /\ analytics.assets[1].amount # 0) => answer.made = 50

IsConcentration == answer.op = "calculateConcentrationRisk"
Largest == CHOOSE a \in {analytics.assets[k].amount : k \in 1..Len(analytics.assets)} :
               \A k \in 1..Len(analytics.assets) : a >= analytics.assets[k].amount
\* the tiers in rising order
Tiers == <<"Very Low", "Low", "Medium", "High">>

\* C18: the level is Unknown exactly when there are no holdings; otherwise
\* it is the tier of topShare = largest amount / total * 100 (0 for a zero
\* total): Very Low up to 30, Low above 30 up to 50, Medium above 50 up to
\* 70, High above 70, so the tier rises with the number of thresholds
\* topShare exceeds; the report names a holding of the largest amount and
\* gives topShare rounded to a nearest integer.
C18_ConcentrationTiers ==
    IsConcentration =>
        /\ answer.made.level = "Unknown" <=> analytics.assets = << >>
        /\ analytics.assets # << >> =>
              /\ answer.made.level =
                     Tiers[1 + Cardinality({t \in {30, 50, 70} : 100 * Largest > t * Total})]
              /\ \E k \in 1..Len(analytics.assets) :
                     /\ analytics.assets[k].name = answer.made.topAsset
                     /\ analytics.assets[k].amount = Largest
              /\ 2 * Abs(answer.made.percentage * Total - 100 * Largest) <= Total

\* a top share of exactly 30 per cent reported as Very Low
C18_Witness ==
    /\ IsConcentration
    /\ Total > 0
    /\ 100 * Largest = 30 * Total
    /\ answer.made.level = "Very Low"
    /\ answer.made.percentage = 30

IsPatterns == answer.op = "analyzeTransactionPatterns" /\ analytics.transactions # << >>
Count == Len(analytics.transactions)
\* maxTick - minTick over the ticks > 0
TickSpan ==
    LET txTicks == PositiveTicks(analytics.transactions)
    IN IF txTicks = << >> THEN 0 ELSE MaxTick(txTicks) - MinTick(txTicks)
\* the day-span in ticks: max(1, span / 8640) days
DaySpanTicks == MaxOf(TicksPerDay, TickSpan)

\* C19: frequency is the number of transactions divided by the day-span
\* max(1, (maxTick - minTick) / 8640) over the ticks > 0, reported to the
\* nearest tenth, and never above the number of transactions; the pattern is
\* High Activity when frequency > 5, Moderate Activity when it is > 2 and
\* Low Activity otherwise; 10 transactions within 50 ticks have frequency 10
\* and High Activity.
C19_FrequencyAndPattern ==
    IsPatterns =>
        LET tenths == MathRound(FMul(answer.made.frequency, Double(10)))
        IN /\ FCmp(answer.made.frequency, FDiv(Double(tenths), Double(10))) = 0
           /\ 2 * Abs(tenths * DaySpanTicks - 10 * Count * TicksPerDay) <= DaySpanTicks
           /\ FCmp(answer.made.frequency, Double(Count)) <= 0
           /\ answer.made.pattern =
                  (IF Count * TicksPerDay > 5 * DaySpanTicks THEN "High Activity"
                   ELSE IF Count * TicksPerDay > 2 * DaySpanTicks THEN "Moderate Activity"
                   ELSE "Low Activity")
           /\ Count = 10 /\ TickSpan <= 50 =>
                  tenths = 100 /\ answer.made.pattern = "High Activity"

\* 10 transactions within 50 ticks
C19_Witness ==
    /\ IsPatterns
    /\ Count = 10
    /\ TickSpan > 0
    /\ TickSpan <= 50
    /\ FCmp(answer.made.frequency, Double(10)) = 0
    /\ answer.made.pattern = "High Activity"

\* C20: a call of an analytics operation leaves the asset list and the
\* transaction list given to setData as they were, same elements in the
\* same order.
C20_OperationsLeaveSnapshot ==
    [][answer' # answer =>
          /\ analytics'.assets = analytics.assets
          /\ analytics'.transactions = analytics.transactions]_vars

\* ------------------------------------------- StorageManager used directly
Address(k) == "W" \o ToString(k)
\* the addresses a caller adds, touches and removes
StorageAddresses == {WalletA, Address(1), Address(MaxImported)}
ImportedLists == {[k \in 1..n |-> Address(k)] : n \in {0, 2, MAX_WALLETS, MaxImported}}
ImportedSettings == [autoRefresh |-> FALSE, refreshInterval |-> DefaultRefreshInterval]
Documents ==
    {NotJson}
    \cup {Json(walletList, storedSettings) :
             walletList \in {Absent, NotArray} \cup {ArrayOf(xs) : xs \in ImportedLists},
             storedSettings \in {NoData, ImportedSettings}}

\* one StorageManager operation: localStorage after it, and what it returned
Stored(t, op, returned) ==
    /\ wallets' = t.wallets
    /\ snapCache' = t.snapCache
    /\ settings' = t.settings
    /\ answer' = [op |-> op, returned |-> returned]
    /\ UNCHANGED <<booted, currentWallet, portfolioData, transactions, assets,
                   refreshInterval, isLoading, activeTab, timers, cache, calls, loads,
                   now, ticks, events, firings, failing, event, analytics>>

StorageAddWallet ==
    \E address \in StorageAddresses : Stored(storageAddWallet(S, address), "addWallet", TRUE)
StorageUpdateWalletAccess ==
    \E address \in StorageAddresses :
        Stored(updateWalletAccess(S, address), "updateWalletAccess", address)
StorageRemoveWallet ==
    \E address \in StorageAddresses :
        Stored(storageRemoveWallet(S, address), "removeWallet", TRUE)
StorageClearWallets == Stored(clearWallets(S), "clearWallets", TRUE)
StorageImportData ==
    \E jsonString \in Documents :
        Stored(importData(S, jsonString), "importData", jsonString.parses)
StorageClearAll == Stored(clearAll(S), "clearAll", TRUE)

NextStorage ==
    \/ StorageAddWallet
    \/ StorageUpdateWalletAccess
    \/ StorageRemoveWallet
    \/ StorageClearWallets
    \/ StorageImportData
    \/ StorageClearAll

SpecStorage == Init /\ [][NextStorage]_vars

\* C22: after any sequence of StorageManager operations the stored wallet
\* history holds at most MAX_WALLETS (10) wallets.
C22_AtMostTenWallets == Len(wallets) <= MAX_WALLETS

\* ---------------------------------------------- the delays between attempts
RECURSIVE SumFrom(_, _)
SumFrom(xs, k) == IF k > Len(xs) THEN 0 ELSE xs[k] + SumFrom(xs, k + 1)
\* the delays of an activation: 1 s times (a - 1) before attempt a, counted from 1
LinearDelays(r) ==
    /\ Len(r.delays) = r.attempts - 1
    /\ \A a \in 2..r.attempts : r.delays[a - 1] = 1000 * (a - 1)

\* C23: the delay before attempt a (a >= 2) of fetchWithRetry is 1 s times
\* (a - 1); no delay follows the final failed attempt; the delays of the 3
\* attempts add up to at most 1 s + 2 s = 3 s.
C23_LinearBackoff ==
    /\ \A r \in InFlight(S) : LinearDelays(r) /\ SumFrom(r.delays, 1) <= 3000
    /\ event.fetch \in {"ok", "giveup"} =>
          LinearDelays(event.call) /\ SumFrom(event.call.delays, 1) <= 3000
    /\ event.fetch = "giveup" => Len(event.call.delays) = retryAttempts - 1

\* three attempts failed: 1 s was waited before the second, 2 s before the third
C23_Witness == event.fetch = "giveup" /\ event.call.delays = <<1000, 2000>>

\* --------------------------- the API client with retryAttempts reassigned
\* the client after `api.retryAttempts = n`
Configured == [S EXCEPT !.retryAttempts = answer.retryAttempts]

Configure ==
    /\ answer = NoAnswer
    /\ \E n \in 1..MaxAttempts : answer' = [op |-> "configure", retryAttempts |-> n]
    /\ UNCHANGED <<appVars, analytics>>

ConfiguredRead ==
    /\ answer # NoAnswer
    /\ ApiUse /\ BagCardinality(calls) < MaxCalls
    /\ \/ \E wallet \in ApiWallets : Commit(Result(getBalance(Configured, wallet, Direct)))
       \/ Commit(Result(getNetworkStatus(Configured, Direct)))
    /\ UNCHANGED <<booted, ticks, firings, failing>>

ConfiguredAttemptSucceed ==
    /\ answer # NoAnswer
    /\ \E call \in BagToSet(calls) : Commit(attemptSucceeded(Configured, call))
    /\ UNCHANGED <<booted, ticks, events, firings, failing>>

ConfiguredAttemptFail ==
    /\ answer # NoAnswer
    /\ \E call \in BagToSet(calls), kind \in ErrorKinds :
          Commit(attemptFailed(Configured, call, kind))
    /\ UNCHANGED <<booted, ticks, events, firings, failing>>

NextRetry ==
    \/ Configure
    \/ ConfiguredRead
    \/ ConfiguredAttemptSucceed
    \/ ConfiguredAttemptFail

SpecRetry == Init /\ [][NextRetry]_vars

\* C24: whatever number of retry attempts is configured, the delay before
\* each retry is twice the delay before the previous retry.
C24_ExponentialBackoff ==
    \A r \in InFlight(S) :
        \A k \in 2..Len(r.delays) : r.delays[k] = 2 * r.delays[k - 1]

\* ------------------------------------ the application with its timers on time
\* setInterval: a timer fires when its interval has elapsed, and again one
\* interval later; the clock does not pass a firing that is due
Due(id) == timers[id].due
UntilDue == {Due(id) - now : id \in DOMAIN timers}
Elapse ==
    /\ booted /\ ticks < MaxElapses
    /\ \E d \in {Latency} \cup UntilDue :
          /\ d > 0
          /\ \A id \in DOMAIN timers : now + d <= Due(id)
          /\ Commit([S EXCEPT !.now = @ + d])
    /\ ticks' = ticks + 1
    /\ UNCHANGED <<booted, events, firings, failing>>

TimedFire ==
    /\ booted
    /\ \E id \in DOMAIN timers :
          /\ now = Due(id)
          /\ Commit(loadAllData([S EXCEPT !.timers[id].due = @ + timers[id].interval,
                                          !.log.fired = TRUE,
                                          !.log.stale = timers[id].startedFor # currentWallet],
                                FALSE))
    /\ UNCHANGED <<booted, ticks, events, firings, failing>>

NextTimed ==
    \/ CheckUrlParams
    \/ Response
    \/ Elapse
    \/ TimedFire

SpecTimed == Init /\ [][NextTimed]_vars

\* C25: with the default settings, a timer firing that starts a refresh gets
\* balance, assets and network status from the network: none of its three
\* reads is answered by the request cache.
C25_FiringReadsFromNetwork ==
    event.fired /\ event.started =>
        \A look \in event.lookups : look.cache = "request" => look.returned = NoData

\* -------------------------- the application while wallets and tabs are switched
\* a user event counted against a budget of n
Budgeted(n) == events < n /\ events' = events + 1

WalletSwitched ==
    /\ booted /\ RoomForLoad /\ Budgeted(MaxSwitches)
    /\ \E k \in 1..Len(wallets) : CommitApp(setCurrentWallet(S, wallets[k]))
    /\ UNCHANGED <<booted, ticks, firings, failing>>

TabSwitched ==
    /\ booted /\ RoomForTx /\ Budgeted(MaxSwitches)
    /\ \E tabName \in Tabs : CommitApp(switchTab(S, tabName))
    /\ UNCHANGED <<booted, ticks, firings, failing>>

TransactionsRefreshed ==
    /\ booted /\ RoomForTx /\ Budgeted(MaxSwitches)
    /\ CommitApp(loadTransactions(S, 0))
    /\ UNCHANGED <<booted, ticks, firings, failing>>

NextSwitching ==
    \/ CheckUrlParams
    \/ WalletSwitched
    \/ TabSwitched
    \/ TransactionsRefreshed
    \/ Response

SpecSwitching == Init /\ [][NextSwitching]_vars

\* what getTransactions returns for a wallet
TransactionsFor(w) == TransactionsOf(Payload(TransfersUrl(w)), w, DefaultLimit).value

\* C26: a non-empty app.transactions was read for the current wallet, after
\* any interleaving of wallet switches, tab switches, loadTransactions calls
\* and their completions.
C26_TransactionsOfCurrentWallet ==
    transactions # << >> =>
        currentWallet \in ValidWallets /\ transactions = TransactionsFor(currentWallet)

\* ------------------- the application while its refreshes are followed to their end
\* an earlier session stored settings with auto-refresh off
SettingsImported ==
    /\ ~booted /\ settings = DefaultSettings
    /\ CommitApp(importData(S, Json(Absent, ImportedSettings)))
    /\ UNCHANGED <<booted, ticks, events, firings, failing>>

WalletChosen ==
    /\ booted /\ RoomForLoad /\ Budgeted(MaxChoices)
    /\ \E k \in 1..Len(wallets) : CommitApp(setCurrentWallet(S, wallets[k]))
    /\ UNCHANGED <<booted, ticks, firings, failing>>

\* an interval timer fires, as it does again and again while it is active
Fired ==
    /\ booted /\ RoomForLoad
    /\ \E id \in DOMAIN timers :
          CommitApp(loadAllData([S EXCEPT !.log.fired = TRUE,
                                       !.log.stale = timers[id].startedFor # currentWallet],
                             FALSE))
    /\ UNCHANGED <<booted, ticks, events, firings, failing>>

NextLive ==
    \/ SettingsImported
    \/ CheckUrlParams
    \/ WalletChosen
    \/ Fired
    \/ Response
    \/ ResponseError

\* every request is answered in the end (by a response, if not by an error), and
\* an active interval timer keeps firing
SpecLive == Init /\ [][NextLive]_vars /\ WF_vars(Response) /\ WF_vars(Fired)

\* C27: after setCurrentWallet made w the tracked identifier while a refresh
\* was in flight (its own refresh request was dropped by the guard), a refresh
\* for w is started in the end, whatever the auto-refresh setting is.
C27_SwitchEventuallyRefreshes ==
    \A w \in ValidWallets :
        (currentWallet = w /\ event.dropped /\ ~event.fired)
            ~> (currentWallet # w \/ event.started)

\* C29: isLoading is true only while a refresh is in flight; every refresh
\* that starts ends and releases the guard, whether its reads succeed or fail
\* after the retries; a refresh request is dropped only while a refresh is in
\* flight or no identifier is tracked.
C29_RefreshEndsAndReleasesGuard ==
    /\ [](isLoading => ActiveLoads(S) # {})
    /\ isLoading ~> ~isLoading
    /\ [][event'.dropped /\ event' # event => isLoading \/ Falsy(currentWallet')]_vars

\* a refresh gave up after the third failure of a read and released the guard
C29_Witness == event.ended = "failed" /\ ~isLoading /\ currentWallet # null

\* C28: whenever no identifier is tracked (after clearCurrentWallet, removal
\* of the current wallet or clearing the history) no auto-refresh timer is
\* active, also when a setCurrentWallet call was awaiting its initial load.
C28_NoTimerWithoutWallet ==
    currentWallet = null => DOMAIN timers = {} /\ refreshInterval = 0

\* the fields of a result
Fields(r) == DOMAIN r
AllZero(holdings) == \A k \in 1..Len(holdings) : holdings[k].amount = 0
NoHoldings == analytics.assets = << >>
NoTransactions == analytics.transactions = << >>

DiversityReported(score) ==
    /\ score \in 0..100
    /\ AllZero(analytics.assets) => score = 0
ConcentrationReported(risk) ==
    /\ risk.level \in {"High", "Medium", "Low", "Very Low", "Unknown"}
    /\ risk.percentage \in 0..100
    /\ NoHoldings <=> risk.level = "Unknown"
    /\ NoHoldings => risk = [level |-> "Unknown", percentage |-> 0]
    /\ ~NoHoldings => Fields(risk) = {"level", "percentage", "topAsset"}
    /\ AllZero(analytics.assets) => risk.percentage = 0
PatternsReported(patterns) ==
    /\ patterns.pattern \in {"High Activity", "Moderate Activity", "Low Activity",
                             "Insufficient data"}
    /\ NoTransactions <=> patterns.pattern = "Insufficient data"
    /\ NoTransactions =>
          patterns = [averageAmount |-> 0, frequency |-> Double(0),
                      pattern |-> "Insufficient data", peakHours |-> << >>,
                      topCounterparties |-> << >>]
    /\ ~NoTransactions =>
          Fields(patterns) = {"averageAmount", "frequency", "pattern", "topCounterparties"}
PerformanceReported(performance) ==
    /\ Len(performance) = Len(analytics.assets)
    /\ \A k \in 1..Len(performance) : performance[k].trend \in {"stable", "increasing", "decreasing"}
NetworkReported(network) ==
    /\ network.networkUtilization \in {"High", "Medium", "Low", "Unknown"}
    /\ NoTransactions => network = NoNetworkActivity
InsightsReported(insights) ==
    \A k \in 1..Len(insights) : insights[k].type \in {"warning", "success", "info"}
TimelineReported(timeline) ==
    /\ Len(timeline.labels) = Len(timeline.balances)
    /\ NoTransactions <=> timeline.balances = << >>
    /\ NoTransactions => timeline = [labels |-> << >>, balances |-> << >>]
    /\ \A k \in 1..Len(timeline.balances) : timeline.balances[k] >= 0

\* C21: getAnalyticsSummary and each analytics function it calls return a
\* result for every snapshot given to setData: a null portfolio, a list that
\* is null, empty or all zero. Missing data is reported by values: score 0
\* for no or all-zero holdings, level "Unknown" for no holdings, pattern
\* "Insufficient data", utilization "Unknown" and an empty timeline for no
\* transactions.
C21_AnalyticsTotalWithSentinels ==
    /\ answer.op = "calculateDiversityScore" => DiversityReported(answer.made)
    /\ answer.op = "calculateConcentrationRisk" => ConcentrationReported(answer.made)
    /\ answer.op = "analyzeTransactionPatterns" => PatternsReported(answer.made)
    /\ answer.op = "calculateAssetPerformance" => PerformanceReported(answer.made)
    /\ answer.op = "analyzeNetworkActivity" => NetworkReported(answer.made)
    /\ answer.op = "generateInsights" => InsightsReported(answer.made)
    /\ answer.op = "calculateRealBalanceTimeline" => TimelineReported(answer.made)
    /\ answer.op = "getAnalyticsSummary" =>
          /\ Fields(answer.made) = {"diversity", "concentration", "patterns", "performance",
                                    "network", "insights", "timeline"}
          /\ DiversityReported(answer.made.diversity)
          /\ ConcentrationReported(answer.made.concentration)
          /\ PatternsReported(answer.made.patterns)
          /\ PerformanceReported(answer.made.performance)
          /\ NetworkReported(answer.made.network)
          /\ InsightsReported(answer.made.insights)
          /\ TimelineReported(answer.made.timeline)

\* a summary of the analytics object as constructed: nothing to analyse
C21_Witness ==
    /\ answer.op = "getAnalyticsSummary"
    /\ analytics = NewAnalytics
    /\ answer.made.diversity = 0
    /\ answer.made.concentration.level = "Unknown"
    /\ answer.made.patterns.pattern = "Insufficient data"
    /\ answer.made.timeline.balances = << >>

\* the insights of the last answer, and how many of them carry a title of a kind
InsightsMade ==
    IF answer.op = "getAnalyticsSummary" THEN answer.made.insights ELSE answer.made
Titled(kind) == {k \in 1..Len(InsightsMade) : InsightsMade[k].title \in kind}
DiversityTitles == {"Low Portfolio Diversity", "Well Diversified Portfolio"}
ConcentrationTitles == {"High Concentration Risk"}
ActivityTitles == {"High Trading Activity", "Low Activity Portfolio"}

\* C30: for holdings with non-negative amounts generateInsights never gives both
\* the note "Well Diversified Portfolio" and the warning "High Concentration
\* Risk", and it gives at most one insight on diversity, at most one on
\* concentration and at most one on activity.
C30_InsightsConsistent ==
    answer.op \in {"generateInsights", "getAnalyticsSummary"} =>
        /\ Titled({"Well Diversified Portfolio"}) = {} \/ Titled(ConcentrationTitles) = {}
        /\ Cardinality(Titled(DiversityTitles)) <= 1
        /\ Cardinality(Titled(ConcentrationTitles)) <= 1
        /\ Cardinality(Titled(ActivityTitles)) <= 1
        /\ Cardinality(Titled(DiversityTitles \cup ConcentrationTitles \cup ActivityTitles))
              = Len(InsightsMade)

\* four equal holdings: the score is 75 and the note on diversity is given
C30_Witness ==
    /\ answer.op = "generateInsights"
    /\ Len(analytics.assets) = 4
    /\ Titled({"Well Diversified Portfolio"}) # {}
    /\ Titled(ConcentrationTitles) = {}

TypeOK == Cardinality(ActiveLoads(S)) <= MaxLoads
====
